---- MODULE Spec2Model ----
(***************************************************************************)
(* Vehicle inspection and appointment booking: the Booking entity, the     *)
(* Inspection aggregate and the per-vehicle-type safety policy.            *)
(*                                                                         *)
(* The specifications share the variables:                                 *)
(*   SpecBooking     one Booking driven by confirm / cancel / complete     *)
(*   SpecInspection  one Inspection driven by the aggregate's methods      *)
(*   SpecSafety      Car / Motorcycle calculate_safety on a score list     *)
(*   SpecService     the BookingService over a booking repository          *)
(*   SpecRace        two request_appointment calls interleaved             *)
(*   SpecInspectionService  create_inspection and the inspectors           *)
(*   SpecTimeSlot    with_booking / without_booking on a TimeSlot          *)
(*   SpecGenerator   TimeSlotGenerator.generate_slots_for_date             *)
(*   SpecInspectionWorkflow  the service's calls on a stored inspection    *)
(*   SpecAuth        AuthenticationService.login as the clock advances     *)
(*   SpecSession     login, validate_token and logout                      *)
(*   SpecReport      the public report lookup by license plate             *)
(*   SpecWorkflowRace  update_checkpoint_scores / complete_inspection      *)
(*                   calls interleaved on one inspection                   *)
(*   SpecMemoryRepository  the in-memory booking repository on its own     *)
(*   SpecLoginRace   two login calls interleaved at the failure counter    *)
(* A call is one step.  Every call reads the clock once (utcnow), and the  *)
(* clock reading of a call is later than that of the call before it.       *)
(***************************************************************************)
EXTENDS Integers, Sequences, FiniteSets, TLC

VARIABLES
    now,            \* the last clock reading (datetime.utcnow())
    booking,        \* the Booking entity
    inspection,     \* the Inspection aggregate
    policy_vehicle, \* the vehicle whose calculate_safety is called
    policy_scores,  \* the score list handed to calculate_safety
    ret,            \* the last call: its name, the error raised, the value returned
    repo_kind,      \* the BookingRepository the BookingService was built with
    bookings,       \* the stored bookings, by id
    vehicles,       \* the license plates of the stored vehicles
    time_slot_rows, \* the rows of the time_slots table
    args,           \* the arguments of the last service call
    requests,       \* the request_appointment calls in flight, by caller
    inspectors,     \* the stored inspectors, by id
    inspections,    \* the stored inspections, in the order they were saved
    slot_trace,     \* a TimeSlot and the slots derived from it, call by call
    generator,      \* a TimeSlotGenerator: its start_hour, end_hour and duration
    login_info,     \* the login columns of the stored inspectors, by id
    tokens,         \* the stored authentication tokens, in the order saved
    calls           \* the inspection and login calls in flight, by caller

entityVars == <<booking, inspection, policy_vehicle, policy_scores>>

bookingServiceVars == <<repo_kind, bookings, vehicles, time_slot_rows, requests>>

inspectionServiceVars == <<inspectors, inspections>>

authVars == <<login_info, tokens>>

toolVars == <<generator, authVars, calls>>

\* The service-side variables but for the arguments of the last call.
storeVars == <<bookingServiceVars, inspectionServiceVars, slot_trace, toolVars>>

serviceVars == <<storeVars, args>>

vars == <<now, entityVars, serviceVars, ret>>

(***************************************************************************)
(* Bounds                                                                  *)
(***************************************************************************)
BookingMaxTime == 5      \* calls made on the booking
InspectionMaxTime == 4   \* calls made on the inspection
MaxScores == 9           \* longest score list handed to a vehicle policy
ServiceMaxTime == 4      \* calls made on the booking service
InspectionServiceMaxTime == 3   \* calls made on the inspection service and the inspectors
SessionMaxTime == 4             \* the clock up to which session calls are started
AuthMaxTime == 7                \* the clock up to which logins are started
WorkflowMaxTime == 3            \* calls made on a stored inspection
TimeSlotMaxCalls == 3    \* slots derived from one TimeSlot
MaxSlotBookings == 3     \* largest max_bookings of a TimeSlot
MaxStoredBookings == 3   \* bookings saved into the in-memory repository
MaxGeneratorDate == 2    \* latest date slots are generated for

(***************************************************************************)
(* Enumerations                                                            *)
(***************************************************************************)
BookingStatus == {"pending", "confirmed", "completed", "cancelled"}

InspectionStatus == {"draft", "completed"}

VehicleType == {"car", "motorcycle"}

CheckpointType ==
    {"braking_system", "steering_system", "suspension_system", "tires",
     "lighting_system", "gas_emissions", "electrical_system", "body_structure"}

(***************************************************************************)
(* The outcome of a call.  error = "" when the call returned normally.     *)
(***************************************************************************)
NoRet ==
    [op |-> "none", error |-> "", raises |-> "", value |-> <<>>,
     status |-> "", missing |-> {}]

(***************************************************************************)
(* CheckpointScore: a frozen record; cls tells a CheckpointScore instance  *)
(* from any other object a caller may put into a list.                     *)
(***************************************************************************)
CheckpointScore(checkpoint_type, score) ==
    [cls |-> "CheckpointScore", checkpoint_type |-> checkpoint_type,
     score |-> score, notes |-> ""]

RECURSIVE SumScores(_)
SumScores(scores) ==
    IF scores = <<>> THEN 0
    ELSE Head(scores).score + SumScores(Tail(scores))

(***************************************************************************)
(* SafetyResult: the dataclass with its __post_init__ bound check.         *)
(***************************************************************************)
SafetyResult(is_safe, total_score, max_score, requires_reinspection, observation) ==
    IF total_score < 0
    THEN [error |-> "Total score cannot be negative", value |-> <<>>]
    ELSE IF max_score < 0
    THEN [error |-> "Max score cannot be negative", value |-> <<>>]
    ELSE IF total_score > max_score
    THEN [error |-> "Total score cannot exceed maximum score", value |-> <<>>]
    ELSE [error |-> "",
          value |-> <<[is_safe |-> is_safe, total_score |-> total_score,
                       max_score |-> max_score,
                       requires_reinspection |-> requires_reinspection,
                       observation |-> observation]>>]

SafetyResult_status(r) ==
    IF r.is_safe THEN "SAFE"
    ELSE IF r.requires_reinspection THEN "REQUIRES_REINSPECTION"
    ELSE "CONDITIONAL"

(***************************************************************************)
(* Vehicle policies                                                        *)
(***************************************************************************)
Car_get_required_checkpoints ==
    <<"braking_system", "steering_system", "suspension_system", "tires",
      "lighting_system", "gas_emissions", "electrical_system", "body_structure">>

Motorcycle_get_required_checkpoints ==
    <<"braking_system", "steering_system", "suspension_system", "tires",
      "lighting_system", "gas_emissions", "electrical_system", "body_structure">>

\* The observation text, kept as its parts: the critical items listed, the
\* low-total note (total and maximum) when present, and the closing sentence.
NoObservation == [critical_items |-> <<>>, low_total |-> <<>>, closing |-> ""]

critical_items(critical_failures) ==
    [i \in 1..Len(critical_failures) |->
        <<critical_failures[i].checkpoint_type, critical_failures[i].score>>]

Car_calculate_safety_le32(scores) ==
    LET total_score == SumScores(scores)
        max_possible_score == Len(Car_get_required_checkpoints) * 10
        critical_failures == SelectSeq(scores, LAMBDA s : s.score < 5)
        is_safe == total_score >= 64 /\ critical_failures = <<>>
        requires_reinspection == total_score <= 32 \/ critical_failures # <<>>
        observation ==
            IF requires_reinspection
            THEN [critical_items |-> critical_items(critical_failures),
                  low_total |-> IF total_score <= 32
                                THEN <<total_score, max_possible_score>> ELSE <<>>,
                  closing |-> "Vehicle requires re-inspection before approval."]
            ELSE NoObservation
    IN  SafetyResult(is_safe, total_score, max_possible_score,
                     requires_reinspection, observation)

Car_calculate_safety(scores) ==
    LET total_score == SumScores(scores)
        max_possible_score == Len(Car_get_required_checkpoints) * 10
        critical_failures == SelectSeq(scores, LAMBDA s : s.score < 5)
        is_safe == total_score >= 64 /\ critical_failures = <<>>
        requires_reinspection == total_score < 32 \/ critical_failures # <<>>
        observation ==
            IF requires_reinspection
            THEN [critical_items |-> critical_items(critical_failures),
                  low_total |-> IF total_score < 32
                                THEN <<total_score, max_possible_score>> ELSE <<>>,
                  closing |-> "Vehicle requires re-inspection before approval."]
            ELSE NoObservation
    IN  SafetyResult(is_safe, total_score, max_possible_score,
                     requires_reinspection, observation)

Motorcycle_calculate_safety_no_critical(scores) ==
    LET total_score == SumScores(scores)
        max_possible_score == Len(Motorcycle_get_required_checkpoints) * 10
        critical_failures == SelectSeq(scores, LAMBDA s : s.score < 5)
        is_safe == total_score >= 64
        requires_reinspection == total_score < 32 \/ critical_failures # <<>>
        observation ==
            IF requires_reinspection
            THEN [critical_items |-> critical_items(critical_failures),
                  low_total |-> IF total_score < 32
                                THEN <<total_score, max_possible_score>> ELSE <<>>,
                  closing |-> "Motorcycle requires re-inspection before approval."]
            ELSE NoObservation
    IN  SafetyResult(is_safe, total_score, max_possible_score,
                     requires_reinspection, observation)

Motorcycle_calculate_safety(scores) ==
    LET total_score == SumScores(scores)
        max_possible_score == Len(Motorcycle_get_required_checkpoints) * 10
        critical_failures == SelectSeq(scores, LAMBDA s : s.score < 5)
        is_safe == total_score >= 64 /\ critical_failures = <<>>
        requires_reinspection == total_score < 32 \/ critical_failures # <<>>
        observation ==
            IF requires_reinspection
            THEN [critical_items |-> critical_items(critical_failures),
                  low_total |-> IF total_score < 32
                                THEN <<total_score, max_possible_score>> ELSE <<>>,
                  closing |-> "Motorcycle requires re-inspection before approval."]
            ELSE NoObservation
    IN  SafetyResult(is_safe, total_score, max_possible_score,
                     requires_reinspection, observation)

(***************************************************************************)
(* Booking entity                                                          *)
(***************************************************************************)
Booking_confirm_not_terminal(b, utcnow) ==
    IF b.status \in {"completed", "cancelled"}
    THEN [booking |-> b, error |-> "Only pending bookings can be confirmed"]
    ELSE [booking |-> [b EXCEPT !.status = "confirmed", !.updated_at = utcnow],
          error |-> ""]

Booking_confirm(b, utcnow) ==
    IF b.status # "pending"
    THEN [booking |-> b, error |-> "Only pending bookings can be confirmed"]
    ELSE [booking |-> [b EXCEPT !.status = "confirmed", !.updated_at = utcnow],
          error |-> ""]

Booking_cancel_completed(b, utcnow) ==
    IF b.status \in {"cancelled"}
    THEN [booking |-> b,
          error |-> "Cannot cancel completed or already cancelled bookings"]
    ELSE [booking |-> [b EXCEPT !.status = "cancelled", !.updated_at = utcnow],
          error |-> ""]

Booking_cancel(b, utcnow) ==
    IF b.status \in {"completed", "cancelled"}
    THEN [booking |-> b,
          error |-> "Cannot cancel completed or already cancelled bookings"]
    ELSE [booking |-> [b EXCEPT !.status = "cancelled", !.updated_at = utcnow],
          error |-> ""]

Booking_complete(b, utcnow) ==
    IF b.status # "confirmed"
    THEN [booking |-> b, error |-> "Only confirmed bookings can be completed"]
    ELSE [booking |-> [b EXCEPT !.status = "completed", !.updated_at = utcnow],
          error |-> ""]

\* Booking(...): the constructor takes the status as an argument (PENDING by
\* default; a stored booking is rebuilt with the status it was saved with).
Booking(license_plate, appointment_date, user_id, booking_id, status, utcnow) ==
    [id |-> booking_id, license_plate |-> license_plate,
     appointment_date |-> appointment_date, user_id |-> user_id,
     status |-> status, created_at |-> utcnow, updated_at |-> utcnow]

(***************************************************************************)
(* Inspection aggregate                                                    *)
(***************************************************************************)
Whitespace == {" ", "\t", "\n"}

\* str.strip(): drop the leading and the trailing whitespace characters.
RECURSIVE lstrip(_)
lstrip(s) ==
    IF s # <<>> /\ Head(s) \in Whitespace THEN lstrip(Tail(s)) ELSE s

RECURSIVE rstrip(_)
rstrip(s) ==
    IF s # <<>> /\ s[Len(s)] \in Whitespace
    THEN rstrip(SubSeq(s, 1, Len(s) - 1)) ELSE s

strip(s) == rstrip(lstrip(s))

ascii_lowercase ==
    <<"a", "b", "c", "d", "e", "f", "g", "h", "i", "j", "k", "l", "m",
      "n", "o", "p", "q", "r", "s", "t", "u", "v", "w", "x", "y", "z">>

ascii_uppercase ==
    <<"A", "B", "C", "D", "E", "F", "G", "H", "I", "J", "K", "L", "M",
      "N", "O", "P", "Q", "R", "S", "T", "U", "V", "W", "X", "Y", "Z">>

digits == {"0", "1", "2", "3", "4", "5", "6", "7", "8", "9"}

\* str.upper()
upper(s) ==
    [i \in 1..Len(s) |->
        IF \E k \in 1..26 : ascii_lowercase[k] = s[i]
        THEN ascii_uppercase[CHOOSE k \in 1..26 : ascii_lowercase[k] = s[i]]
        ELSE s[i]]

\* The characters of the status names compared as text.
StringChars(str) ==
    CASE str = "draft" -> <<"d", "r", "a", "f", "t">>
      [] str = "completed" -> <<"c", "o", "m", "p", "l", "e", "t", "e", "d">>
      [] str = "COMPLETED" -> <<"C", "O", "M", "P", "L", "E", "T", "E", "D">>

\* str.lower()
lower(s) ==
    [i \in 1..Len(s) |->
        IF \E k \in 1..26 : ascii_uppercase[k] = s[i]
        THEN ascii_lowercase[CHOOSE k \in 1..26 : ascii_uppercase[k] = s[i]]
        ELSE s[i]]

\* str.replace(old, ""), for a one-character old
RECURSIVE remove(_, _)
remove(s, old) ==
    IF s = <<>> THEN <<>>
    ELSE IF Head(s) = old THEN remove(Tail(s), old)
    ELSE <<Head(s)>> \o remove(Tail(s), old)

Inspection_get_required_checkpoints(insp) ==
    <<"braking_system", "steering_system", "suspension_system", "tires",
      "lighting_system", "gas_emissions", "electrical_system", "body_structure">>

SeqToSet(s) == {s[i] : i \in 1..Len(s)}

\* _validate_checkpoint_scores: "" when the stored scores are consistent,
\* else the message of the ValueError raised.
Inspection_validate_checkpoint_scores(insp) ==
    LET checkpoint_types ==
            [i \in 1..Len(insp.checkpoint_scores) |->
                insp.checkpoint_scores[i].checkpoint_type]
        required_checkpoints == SeqToSet(Inspection_get_required_checkpoints(insp))
    IN  IF Len(checkpoint_types) # Cardinality(SeqToSet(checkpoint_types))
        THEN "Duplicate checkpoint types found in scores"
        ELSE IF \E i \in 1..Len(checkpoint_types) :
                    checkpoint_types[i] \notin required_checkpoints
        THEN "Checkpoint is not valid for vehicle type"
        ELSE ""

Inspection_has_all_required_checkpoints(insp) ==
    LET required_checkpoints == SeqToSet(Inspection_get_required_checkpoints(insp))
        scored_checkpoints ==
            {insp.checkpoint_scores[i].checkpoint_type :
                i \in 1..Len(insp.checkpoint_scores)}
    IN  required_checkpoints \subseteq scored_checkpoints

Inspection_get_missing_checkpoints(insp) ==
    LET required_checkpoints == SeqToSet(Inspection_get_required_checkpoints(insp))
        scored_checkpoints ==
            {insp.checkpoint_scores[i].checkpoint_type :
                i \in 1..Len(insp.checkpoint_scores)}
    IN  required_checkpoints \ scored_checkpoints

Inspection_update_checkpoint_scores_merging(insp, scores, utcnow) ==
    IF insp.status = "completed"
    THEN [inspection |-> insp,
          error |-> "Cannot update scores for completed inspection"]
    ELSE IF ~scores.is_list
    THEN [inspection |-> insp, error |-> "Scores must be a list"]
    ELSE IF \E i \in 1..Len(scores.items) : scores.items[i].cls # "CheckpointScore"
    THEN [inspection |-> insp,
          error |-> "All scores must be CheckpointScore instances"]
    ELSE LET kept == SelectSeq(insp.checkpoint_scores,
                               LAMBDA o : \A i \in 1..Len(scores.items) :
                                   scores.items[i].checkpoint_type # o.checkpoint_type)
             updated == [insp EXCEPT !.checkpoint_scores = kept \o scores.items,
                                     !.updated_at = utcnow]
         IN  [inspection |-> updated,
              error |-> Inspection_validate_checkpoint_scores(updated)]

\* update_checkpoint_scores(scores): scores is the argument as passed,
\* [is_list, items]; the new list is stored, and updated_at bumped, before
\* _validate_checkpoint_scores runs on it.
Inspection_update_checkpoint_scores(insp, scores, utcnow) ==
    IF insp.status = "completed"
    THEN [inspection |-> insp,
          error |-> "Cannot update scores for completed inspection"]
    ELSE IF ~scores.is_list
    THEN [inspection |-> insp, error |-> "Scores must be a list"]
    ELSE IF \E i \in 1..Len(scores.items) : scores.items[i].cls # "CheckpointScore"
    THEN [inspection |-> insp,
          error |-> "All scores must be CheckpointScore instances"]
    ELSE LET updated == [insp EXCEPT !.checkpoint_scores = scores.items,
                                     !.updated_at = utcnow]
         IN  [inspection |-> updated,
              error |-> Inspection_validate_checkpoint_scores(updated)]

Inspection_add_checkpoint_score(insp, score, utcnow) ==
    IF insp.status = "completed"
    THEN [inspection |-> insp,
          error |-> "Cannot update scores for completed inspection"]
    ELSE IF score.cls # "CheckpointScore"
    THEN [inspection |-> insp,
          error |-> "Score must be a CheckpointScore instance"]
    ELSE [inspection |->
            [insp EXCEPT
                !.checkpoint_scores =
                    Append(SelectSeq(insp.checkpoint_scores,
                                     LAMBDA s : s.checkpoint_type # score.checkpoint_type),
                           score),
                !.updated_at = utcnow],
          error |-> ""]

Inspection_update_observations_any_status(insp, observations, utcnow) ==
    [inspection |-> [insp EXCEPT !.observations = strip(observations),
                                 !.updated_at = utcnow],
     error |-> ""]

Inspection_update_observations(insp, observations, utcnow) ==
    IF insp.status = "completed"
    THEN [inspection |-> insp,
          error |-> "Cannot update observations for completed inspection"]
    ELSE [inspection |-> [insp EXCEPT !.observations = strip(observations),
                                      !.updated_at = utcnow],
          error |-> ""]

\* complete_inspection(final_observations): final_observations is {} for
\* None and {text} for a string.
Inspection_complete_inspection(insp, final_observations, utcnow) ==
    IF insp.status = "completed"
    THEN [inspection |-> insp, error |-> "Inspection is already completed",
          missing |-> {}]
    ELSE IF ~Inspection_has_all_required_checkpoints(insp)
    THEN [inspection |-> insp,
          error |-> "Cannot complete inspection. Missing scores for",
          missing |-> Inspection_get_missing_checkpoints(insp)]
    ELSE [inspection |->
            [insp EXCEPT
                !.observations =
                    IF final_observations # {}
                    THEN strip(CHOOSE o \in final_observations : TRUE)
                    ELSE @,
                !.status = "completed",
                !.updated_at = utcnow],
          error |-> "", missing |-> {}]

\* calculate_safety_result(): the result, and self as the call leaves it.
Inspection_calculate_safety_result_consuming(insp) ==
    LET r == IF insp.checkpoint_scores = <<>>
             THEN [error |-> "Cannot calculate safety result without checkpoint scores",
                   value |-> <<>>]
             ELSE IF insp.vehicle_type = "car"
             THEN Car_calculate_safety(insp.checkpoint_scores)
             ELSE Motorcycle_calculate_safety(insp.checkpoint_scores)
    IN  [inspection |-> [insp EXCEPT !.checkpoint_scores = <<>>],
         error |-> r.error, value |-> r.value]

Inspection_calculate_safety_result(insp) ==
    LET r == IF insp.checkpoint_scores = <<>>
             THEN [error |-> "Cannot calculate safety result without checkpoint scores",
                   value |-> <<>>]
             ELSE IF insp.vehicle_type = "car"
             THEN Car_calculate_safety(insp.checkpoint_scores)
             ELSE Motorcycle_calculate_safety(insp.checkpoint_scores)
    IN  [inspection |-> insp, error |-> r.error, value |-> r.value]

\* The values that are UUIDs.
UUIDs == {"i1", "i2", "i3"}

\* Inspection(license_plate, vehicle_type, inspector_id, inspection_id): a new
\* draft with no scores and no observations, or the error __init__ raises.
Inspection(license_plate, vehicle_type, inspector_id, inspection_id, utcnow) ==
    IF license_plate = <<>> \/ strip(license_plate) = <<>>
    THEN [error |-> "License plate cannot be empty", value |-> <<>>]
    ELSE IF vehicle_type \notin VehicleType
    THEN [error |-> "Vehicle type must be a VehicleType enum", value |-> <<>>]
    ELSE IF inspector_id \notin UUIDs
    THEN [error |-> "Inspector ID must be a UUID", value |-> <<>>]
    ELSE [error |-> "",
          value |-> << [id |-> inspection_id,
                        license_plate |-> upper(strip(license_plate)),
                        vehicle_type |-> vehicle_type,
                        inspector_id |-> inspector_id,
                        checkpoint_scores |-> <<>>,
                        observations |-> <<>>, status |-> "draft",
                        created_at |-> utcnow, updated_at |-> utcnow] >>]

(***************************************************************************)
(* Dates and times.  A datetime is a number of minutes since midnight of   *)
(* day 0; a date is a day number and a time of day a number of minutes.    *)
(***************************************************************************)
MinutesPerDay == 1440

datetime_date(dt) == dt \div MinutesPerDay

datetime_time(dt) == dt % MinutesPerDay

datetime_combine(d, t) == d * MinutesPerDay + t

\* time(hour, 0)
time_of_hour(hour) == hour * 60

(***************************************************************************)
(* TimeSlot: the frozen dataclass with its __post_init__ checks.           *)
(***************************************************************************)
TimeSlot(date, start_time, end_time, is_available, max_bookings, current_bookings) ==
    IF start_time >= end_time
    THEN [error |-> "Start time must be before end time", value |-> <<>>]
    ELSE IF current_bookings < 0
    THEN [error |-> "Current bookings cannot be negative", value |-> <<>>]
    ELSE IF max_bookings < 1
    THEN [error |-> "Max bookings must be at least 1", value |-> <<>>]
    ELSE IF current_bookings > max_bookings
    THEN [error |-> "Current bookings cannot exceed max bookings", value |-> <<>>]
    ELSE [error |-> "",
          value |-> << [date |-> date, start_time |-> start_time,
                        end_time |-> end_time, is_available |-> is_available,
                        max_bookings |-> max_bookings,
                        current_bookings |-> current_bookings] >>]

TimeSlot_is_fully_booked(slot) == slot.current_bookings >= slot.max_bookings

TimeSlot_available_spots(slot) == slot.max_bookings - slot.current_bookings

TimeSlot_with_booking_le(slot) ==
    IF TimeSlot_is_fully_booked(slot)
    THEN [error |-> "Cannot book a fully booked time slot", value |-> <<>>]
    ELSE TimeSlot(slot.date, slot.start_time, slot.end_time,
                  slot.current_bookings + 1 <= slot.max_bookings,
                  slot.max_bookings, slot.current_bookings + 1)

TimeSlot_with_booking(slot) ==
    IF TimeSlot_is_fully_booked(slot)
    THEN [error |-> "Cannot book a fully booked time slot", value |-> <<>>]
    ELSE TimeSlot(slot.date, slot.start_time, slot.end_time,
                  slot.current_bookings + 1 < slot.max_bookings,
                  slot.max_bookings, slot.current_bookings + 1)

TimeSlot_without_booking_keeps_flag(slot) ==
    IF slot.current_bookings = 0
    THEN [error |-> "Cannot remove booking from empty time slot", value |-> <<>>]
    ELSE TimeSlot(slot.date, slot.start_time, slot.end_time, slot.is_available,
                  slot.max_bookings, slot.current_bookings - 1)

TimeSlot_without_booking(slot) ==
    IF slot.current_bookings = 0
    THEN [error |-> "Cannot remove booking from empty time slot", value |-> <<>>]
    ELSE TimeSlot(slot.date, slot.start_time, slot.end_time, TRUE,
                  slot.max_bookings, slot.current_bookings - 1)

(***************************************************************************)
(* TimeSlotGenerator                                                       *)
(***************************************************************************)
TimeSlotGenerator(start_hour, end_hour, slot_duration_minutes) ==
    [start_hour |-> start_hour, end_hour |-> end_hour,
     slot_duration_minutes |-> slot_duration_minutes]

\* The while loop of generate_slots_for_date from current_time on, with the
\* slots appended so far.  Adding the duration to a time of day wraps at
\* midnight: only .time() of the sum is kept.
RECURSIVE TimeSlotGenerator_loop(_, _, _, _, _)
TimeSlotGenerator_loop(end_time, slot_duration_minutes, target_date, current_time, slots) ==
    IF ~(current_time < end_time) THEN [error |-> "", value |-> slots]
    ELSE LET slot_end_time == (current_time + slot_duration_minutes) % MinutesPerDay
             slot == TimeSlot(datetime_combine(target_date, current_time),
                              current_time, slot_end_time, TRUE, 1, 0)
         IN  IF slot_end_time <= end_time /\ slot.error # ""
             THEN [error |-> slot.error, value |-> <<>>]
             ELSE TimeSlotGenerator_loop(
                      end_time, slot_duration_minutes, target_date, slot_end_time,
                      IF slot_end_time <= end_time THEN Append(slots, slot.value[1])
                      ELSE slots)

TimeSlotGenerator_generate_slots_for_date_late(g, target_date) ==
    IF g.start_hour \notin 0..23 \/ g.end_hour \notin 0..23
    THEN [error |-> "hour must be in 0..23", value |-> <<>>]
    ELSE TimeSlotGenerator_loop(time_of_hour(g.end_hour), g.slot_duration_minutes,
                                target_date, time_of_hour(g.start_hour + 1), <<>>)

TimeSlotGenerator_generate_slots_for_date(g, target_date) ==
    IF g.start_hour \notin 0..23 \/ g.end_hour \notin 0..23
    THEN [error |-> "hour must be in 0..23", value |-> <<>>]
    ELSE TimeSlotGenerator_loop(time_of_hour(g.end_hour), g.slot_duration_minutes,
                                target_date, time_of_hour(g.start_hour), <<>>)

(***************************************************************************)
(* License plate validation                                                *)
(***************************************************************************)
\* re.match(r'^[A-Z0-9]{3,8}$', strip().upper()) on a non-empty argument
LicensePlateValidator_validate(license_plate) ==
    IF license_plate = <<>> THEN FALSE
    ELSE LET plate == upper(strip(license_plate))
         IN  /\ Len(plate) >= 3
             /\ Len(plate) <= 8
             /\ \A i \in 1..Len(plate) :
                    \/ \E k \in 1..26 : ascii_uppercase[k] = plate[i]
                    \/ plate[i] \in digits

LicensePlateValidator_normalize(license_plate) == upper(strip(license_plate))

(***************************************************************************)
(* Booking repositories.  The stored bookings are a sequence; the id of a  *)
(* booking is its position.                                                *)
(***************************************************************************)
BookingRepository_save(stored, b) ==
    IF b.id \in DOMAIN stored THEN [stored EXCEPT ![b.id] = b]
    ELSE Append(stored, b)

booked_count_any_status(stored, dt) ==
    Cardinality({i \in DOMAIN stored : stored[i].appointment_date = dt})

\* The bookings holding a slot: PENDING or CONFIRMED at that exact datetime.
booked_count(stored, dt) ==
    Cardinality({i \in DOMAIN stored :
                    /\ stored[i].appointment_date = dt
                    /\ stored[i].status \in {"pending", "confirmed"}})

\* The hourly slots of a day, 8:00 to 17:00, all free.
default_slots(target_date) ==
    [i \in 1..9 |->
        LET hour == 7 + i
            start_time == time_of_hour(hour)
            end_time == IF hour < 16 THEN time_of_hour(hour + 1) ELSE time_of_hour(17)
        IN  TimeSlot(datetime_combine(target_date, start_time),
                     start_time, end_time, TRUE, 1, 0).value[1]]

\* The days the in-memory repository generated slots for when it was built.
InMemoryBookingRepository_days(today) == today..(today + 29)

\* Returns [error, value]: TimeSlot's constructor raises on a slot that
\* holds more bookings than max_bookings.
InMemoryBookingRepository_find_available_slots(stored, target_date, today) ==
    IF target_date \notin InMemoryBookingRepository_days(today)
    THEN [error |-> "", value |-> <<>>]
    ELSE LET base_slots == default_slots(target_date)
             updated(slot) ==
                 LET count == booked_count(stored,
                                  datetime_combine(target_date, slot.start_time))
                 IN  TimeSlot(slot.date, slot.start_time, slot.end_time,
                              count < slot.max_bookings, slot.max_bookings, count)
         IN  IF \E i \in DOMAIN base_slots : updated(base_slots[i]).error # ""
             THEN [error |-> updated(base_slots[
                                CHOOSE i \in DOMAIN base_slots :
                                    /\ updated(base_slots[i]).error # ""
                                    /\ \A j \in 1..(i - 1) :
                                           updated(base_slots[j]).error = ""]).error,
                   value |-> <<>>]
             ELSE [error |-> "",
                   value |-> [i \in DOMAIN base_slots |->
                                 updated(base_slots[i]).value[1]]]

InMemoryBookingRepository_is_slot_available(stored, appointment_date, today) ==
    LET found == InMemoryBookingRepository_find_available_slots(
                     stored, datetime_date(appointment_date), today)
    IN  IF found.error # "" THEN [error |-> found.error, value |-> FALSE]
        ELSE [error |-> "",
              value |-> \E i \in DOMAIN found.value :
                            /\ found.value[i].start_time = datetime_time(appointment_date)
                            /\ found.value[i].is_available]

\* The rows of a set of slots, ordered by start time.
RECURSIVE order_by_start_time(_)
order_by_start_time(rows) ==
    IF rows = {} THEN <<>>
    ELSE LET first == CHOOSE r \in rows : \A q \in rows : r.start_time <= q.start_time
         IN  <<first>> \o order_by_start_time(rows \ {first})

SQLAlchemyBookingRepository_find_available_slots(rows, target_date) ==
    LET slot_models == {r \in rows : /\ datetime_date(r.date) = target_date
                                     /\ r.is_available}
    IN  IF slot_models # {}
        THEN [error |-> "", value |-> order_by_start_time(slot_models)]
        ELSE [error |-> "", value |-> default_slots(target_date)]

SQLAlchemyBookingRepository_is_slot_available(stored, appointment_date) ==
    [error |-> "", value |-> booked_count(stored, appointment_date) < 1]

BookingRepository_find_available_slots(kind, stored, rows, target_date, today) ==
    IF kind = "memory"
    THEN InMemoryBookingRepository_find_available_slots(stored, target_date, today)
    ELSE SQLAlchemyBookingRepository_find_available_slots(rows, target_date)

BookingRepository_is_slot_available_any(kind, stored, appointment_date, today) ==
    [error |-> "", value |-> TRUE]

BookingRepository_is_slot_available(kind, stored, appointment_date, today) ==
    IF kind = "memory"
    THEN InMemoryBookingRepository_is_slot_available(stored, appointment_date, today)
    ELSE SQLAlchemyBookingRepository_is_slot_available(stored, appointment_date)

(***************************************************************************)
(* BookingService                                                          *)
(***************************************************************************)
\* The users the user repository holds.
Users == {"u1", "u2"}

UserRepository_exists(user_id) == user_id \in Users

\* The slots the generator produces are computed and dropped; the answer is
\* the repository's.
BookingService_get_available_slots(g, kind, stored, rows, target_date, today) ==
    LET all_slots == TimeSlotGenerator_generate_slots_for_date(g, target_date)
    IN  IF all_slots.error # "" THEN [error |-> all_slots.error, value |-> <<>>]
        ELSE BookingRepository_find_available_slots(kind, stored, rows, target_date, today)

BookingService_request_appointment_checks_today(kind, stored, license_plate, appointment_date, user_id, utcnow, today) ==
    IF ~LicensePlateValidator_validate(license_plate)
    THEN "Invalid license plate format"
    ELSE IF ~UserRepository_exists(user_id)
    THEN "User not found"
    ELSE LET available == BookingRepository_is_slot_available(
                              kind, stored, appointment_date, today)
         IN  IF available.error # "" THEN available.error
             ELSE IF ~available.value THEN "Selected time slot is not available"
             ELSE IF appointment_date < utcnow
             THEN "Appointment must be scheduled for a future date"
             ELSE ""

\* request_appointment up to and including the future-date check: the error
\* raised, or "" when the request goes on to be stored.
BookingService_request_appointment_checks(kind, stored, license_plate, appointment_date, user_id, utcnow, today) ==
    IF ~LicensePlateValidator_validate(license_plate)
    THEN "Invalid license plate format"
    ELSE IF ~UserRepository_exists(user_id)
    THEN "User not found"
    ELSE LET available == BookingRepository_is_slot_available(
                              kind, stored, appointment_date, today)
         IN  IF available.error # "" THEN available.error
             ELSE IF ~available.value THEN "Selected time slot is not available"
             ELSE IF appointment_date <= utcnow
             THEN "Appointment must be scheduled for a future date"
             ELSE ""

BookingService_request_appointment_store_rechecked(stored, vs, license_plate, appointment_date, user_id, utcnow) ==
    LET normalized_plate == LicensePlateValidator_normalize(license_plate)
        b == Booking(normalized_plate, appointment_date, user_id,
                     Len(stored) + 1, "pending", utcnow)
    IN  IF booked_count(stored, appointment_date) >= 1
        THEN [bookings |-> stored, vehicles |-> vs \cup {normalized_plate},
              error |-> "Selected time slot is not available", value |-> <<>>]
        ELSE [bookings |-> BookingRepository_save(stored, b),
              vehicles |-> vs \cup {normalized_plate},
              error |-> "", value |-> <<b>>]

\* request_appointment after its checks: get or create the vehicle, create
\* the PENDING booking and save it.
BookingService_request_appointment_store(stored, vs, license_plate, appointment_date, user_id, utcnow) ==
    LET normalized_plate == LicensePlateValidator_normalize(license_plate)
        b == Booking(normalized_plate, appointment_date, user_id,
                     Len(stored) + 1, "pending", utcnow)
    IN  [bookings |-> BookingRepository_save(stored, b),
         vehicles |-> vs \cup {normalized_plate},
         error |-> "", value |-> <<b>>]

BookingService_request_appointment(kind, stored, vs, license_plate, appointment_date, user_id, utcnow, today) ==
    LET error == BookingService_request_appointment_checks(
                     kind, stored, license_plate, appointment_date, user_id,
                     utcnow, today)
    IN  IF error # ""
        THEN [bookings |-> stored, vehicles |-> vs, error |-> error, value |-> <<>>]
        ELSE BookingService_request_appointment_store(
                 stored, vs, license_plate, appointment_date, user_id, utcnow)

BookingService_confirm_booking_any_user(stored, booking_id, user_id, utcnow) ==
    IF booking_id \notin DOMAIN stored
    THEN [bookings |-> stored, error |-> "Booking not found", value |-> <<>>]
    ELSE LET r == Booking_confirm(stored[booking_id], utcnow)
         IN  IF r.error # ""
             THEN [bookings |-> stored, error |-> r.error, value |-> <<>>]
             ELSE [bookings |-> BookingRepository_save(stored, r.booking),
                   error |-> "", value |-> <<r.booking>>]

BookingService_confirm_booking(stored, booking_id, user_id, utcnow) ==
    IF booking_id \notin DOMAIN stored
    THEN [bookings |-> stored, error |-> "Booking not found", value |-> <<>>]
    ELSE IF stored[booking_id].user_id # user_id
    THEN [bookings |-> stored, error |-> "You can only confirm your own bookings",
          value |-> <<>>]
    ELSE LET r == Booking_confirm(stored[booking_id], utcnow)
         IN  IF r.error # ""
             THEN [bookings |-> stored, error |-> r.error, value |-> <<>>]
             ELSE [bookings |-> BookingRepository_save(stored, r.booking),
                   error |-> "", value |-> <<r.booking>>]

BookingService_cancel_booking(stored, booking_id, user_id, utcnow) ==
    IF booking_id \notin DOMAIN stored
    THEN [bookings |-> stored, error |-> "Booking not found", value |-> <<>>]
    ELSE IF stored[booking_id].user_id # user_id
    THEN [bookings |-> stored, error |-> "You can only cancel your own bookings",
          value |-> <<>>]
    ELSE LET r == Booking_cancel(stored[booking_id], utcnow)
         IN  IF r.error # ""
             THEN [bookings |-> stored, error |-> r.error, value |-> <<>>]
             ELSE [bookings |-> BookingRepository_save(stored, r.booking),
                   error |-> "", value |-> <<r.booking>>]

(***************************************************************************)
(* Inspector entity                                                        *)
(***************************************************************************)
InspectorStatus == {"active", "inactive", "suspended"}

Inspector(inspector_id, status, utcnow) ==
    [id |-> inspector_id, status |-> status,
     created_at |-> utcnow, updated_at |-> utcnow]

Inspector_is_active(i) == i.status = "active"

Inspector_can_perform_inspections_any(i) == TRUE

Inspector_can_perform_inspections(i) == Inspector_is_active(i)

Inspector_activate(i, utcnow) ==
    [i EXCEPT !.status = "active", !.updated_at = utcnow]

Inspector_deactivate(i, utcnow) ==
    [i EXCEPT !.status = "inactive", !.updated_at = utcnow]

Inspector_suspend_from_active(i, utcnow) ==
    IF i.status = "active"
    THEN [i EXCEPT !.status = "suspended", !.updated_at = utcnow]
    ELSE i

Inspector_suspend(i, utcnow) ==
    [i EXCEPT !.status = "suspended", !.updated_at = utcnow]

(***************************************************************************)
(* InspectionService.create_inspection                                     *)
(***************************************************************************)
InspectionService_normalize_license_plate(license_plate) ==
    remove(remove(upper(strip(license_plate)), " "), "-")

InspectionRepository_save(stored, insp) ==
    IF insp.id \in DOMAIN stored THEN [stored EXCEPT ![insp.id] = insp]
    ELSE Append(stored, insp)

\* Returns the stored inspections, the error raised and its exception
\* class, and the inspection returned.
InspectionService_create_inspection(known, stored, license_plate, vehicle_type, inspector_id, utcnow) ==
    LET failed(raises, error) ==
            [inspections |-> stored, raises |-> raises, error |-> error,
             value |-> <<>>]
    IN  IF license_plate = <<>> \/ strip(license_plate) = <<>>
        THEN failed("ValueError", "License plate cannot be empty")
        ELSE IF vehicle_type \notin VehicleType
        THEN failed("ValueError", "Vehicle type must be a VehicleType enum")
        ELSE IF inspector_id \notin DOMAIN known
        THEN failed("RuntimeError", "Inspector not found")
        ELSE IF ~Inspector_can_perform_inspections(known[inspector_id])
        THEN failed("RuntimeError",
                    "Inspector is not authorized to perform inspections")
        ELSE LET normalized_plate ==
                     InspectionService_normalize_license_plate(license_plate)
                 r == Inspection(normalized_plate, vehicle_type, inspector_id,
                                 Len(stored) + 1, utcnow)
             IN  IF r.error # "" THEN failed("ValueError", r.error)
                 ELSE [inspections |-> InspectionRepository_save(stored, r.value[1]),
                       raises |-> "", error |-> "", value |-> r.value]

(***************************************************************************)
(* InspectionService: the calls on a stored inspection.  find_by_id hands  *)
(* out a copy built from the stored row; only update() writes it back.     *)
(***************************************************************************)
InspectionService_get_required_checkpoints(vehicle_type) ==
    IF vehicle_type = "car"
    THEN [error |-> "", value |-> SeqToSet(Car_get_required_checkpoints)]
    ELSE IF vehicle_type = "motorcycle"
    THEN [error |-> "", value |-> SeqToSet(Motorcycle_get_required_checkpoints)]
    ELSE [error |-> "Unsupported vehicle type", value |-> {}]

\* _validate_checkpoint_scores: the exception class and message, or "" twice.
InspectionService_validate_checkpoint_scores(scores, vehicle_type) ==
    LET required_checkpoints == InspectionService_get_required_checkpoints(vehicle_type)
        raise(raises, error) == [raises |-> raises, error |-> error]
    IN  IF scores.items = <<>>
        THEN raise("ValueError", "Checkpoint scores cannot be empty")
        ELSE IF \E i \in 1..Len(scores.items) : scores.items[i].cls # "CheckpointScore"
        THEN raise("AttributeError", "object has no attribute 'checkpoint_type'")
        ELSE IF Cardinality({scores.items[i].checkpoint_type : i \in 1..Len(scores.items)})
                    # Len(scores.items)
        THEN raise("ValueError", "Duplicate checkpoint types found in scores")
        ELSE IF required_checkpoints.error # ""
        THEN raise("ValueError", required_checkpoints.error)
        ELSE IF \E i \in 1..Len(scores.items) :
                    scores.items[i].checkpoint_type \notin required_checkpoints.value
        THEN raise("ValueError", "Checkpoint is not applicable to vehicle type")
        ELSE raise("", "")

InspectionRepository_update(stored, insp, utcnow) ==
    [stored EXCEPT ![insp.id] = [insp EXCEPT !.updated_at = utcnow]]

InspectionService_update_checkpoint_scores(stored, inspection_id, checkpoint_scores, utcnow) ==
    LET failed(raises, error) ==
            [inspections |-> stored, raises |-> raises, error |-> error,
             missing |-> {}, value |-> <<>>]
    IN  IF inspection_id \notin DOMAIN stored
        THEN failed("ValueError", "Inspection not found")
        ELSE IF stored[inspection_id].status = "completed"
        THEN failed("ValueError",
                    "Cannot modify checkpoint scores for completed inspection")
        ELSE LET v == InspectionService_validate_checkpoint_scores(
                          checkpoint_scores, stored[inspection_id].vehicle_type)
                 r == Inspection_update_checkpoint_scores(
                          stored[inspection_id], checkpoint_scores, utcnow)
             IN  IF v.error # "" THEN failed(v.raises, v.error)
                 ELSE IF r.error # "" THEN failed("ValueError", r.error)
                 ELSE [inspections |-> InspectionRepository_update(stored, r.inspection, utcnow),
                       raises |-> "", error |-> "", missing |-> {},
                       value |-> <<r.inspection>>]

InspectionService_complete_inspection_early(stored, inspection_id, observations, utcnow) ==
    LET insp == stored[inspection_id]
        noted == IF observations = {} THEN insp
                 ELSE Inspection_update_observations(
                          insp, strip(CHOOSE o \in observations : TRUE), utcnow).inspection
        missing_checkpoints ==
            SeqToSet(Car_get_required_checkpoints)
                \ {insp.checkpoint_scores[i].checkpoint_type :
                       i \in 1..Len(insp.checkpoint_scores)}
    IN  IF inspection_id \notin DOMAIN stored
        THEN [inspections |-> stored, raises |-> "ValueError",
              error |-> "Inspection not found", missing |-> {}, value |-> <<>>]
        ELSE IF missing_checkpoints # {}
        THEN [inspections |-> InspectionRepository_update(stored, noted, utcnow),
              raises |-> "ValueError",
              error |-> "Missing required checkpoint scores",
              missing |-> missing_checkpoints, value |-> <<>>]
        ELSE [inspections |->
                  InspectionRepository_update(
                      stored, [noted EXCEPT !.status = "completed"], utcnow),
              raises |-> "", error |-> "", missing |-> {},
              value |-> <<[noted EXCEPT !.status = "completed"]>>]

InspectionService_complete_inspection(stored, inspection_id, observations, utcnow) ==
    LET failed(raises, error, missing) ==
            [inspections |-> stored, raises |-> raises, error |-> error,
             missing |-> missing, value |-> <<>>]
    IN  IF inspection_id \notin DOMAIN stored
        THEN failed("ValueError", "Inspection not found", {})
        ELSE IF stored[inspection_id].status = "completed"
        THEN failed("ValueError", "Inspection is already completed", {})
        ELSE LET insp == stored[inspection_id]
                 required_checkpoints ==
                     InspectionService_get_required_checkpoints(insp.vehicle_type)
                 current_checkpoints ==
                     {insp.checkpoint_scores[i].checkpoint_type :
                          i \in 1..Len(insp.checkpoint_scores)}
                 missing_checkpoints == required_checkpoints.value \ current_checkpoints
                 noted == IF observations = {}
                          THEN [inspection |-> insp, error |-> ""]
                          ELSE Inspection_update_observations(
                                   insp, strip(CHOOSE o \in observations : TRUE), utcnow)
                 completed == Inspection_complete_inspection(noted.inspection, {}, utcnow)
                 safety_result == Inspection_calculate_safety_result(completed.inspection)
             IN  IF required_checkpoints.error # ""
                 THEN failed("ValueError", required_checkpoints.error, {})
                 ELSE IF missing_checkpoints # {}
                 THEN failed("ValueError", "Missing required checkpoint scores",
                             missing_checkpoints)
                 ELSE IF noted.error # "" THEN failed("ValueError", noted.error, {})
                 ELSE IF completed.error # ""
                 THEN failed("ValueError", completed.error, completed.missing)
                 ELSE IF safety_result.error # ""
                 THEN [inspections |->
                           InspectionRepository_update(stored, completed.inspection, utcnow),
                       raises |-> "ValueError", error |-> safety_result.error,
                       missing |-> {}, value |-> <<>>]
                 ELSE [inspections |->
                           InspectionRepository_update(stored, completed.inspection, utcnow),
                       raises |-> "", error |-> "", missing |-> {},
                       value |-> <<completed.inspection>>]

\* The preview calculation: it asks the temporary vehicle for
\* calculate_safety_result, a method no Vehicle has.
InspectionService_calculate_safety_result(checkpoint_scores, vehicle_type) ==
    IF vehicle_type \notin {"car", "motorcycle"}
    THEN [raises |-> "ValueError", error |-> "Unsupported vehicle type", value |-> <<>>]
    ELSE [raises |-> "AttributeError",
          error |-> "object has no attribute 'calculate_safety_result'",
          value |-> <<>>]

(***************************************************************************)
(* AuthenticationService.login over the login columns of the inspectors    *)
(***************************************************************************)
MAX_FAILED_ATTEMPTS == 5
LOCKOUT_DURATION_HOURS == 1
TOKEN_EXPIRY_HOURS == 8

\* PBKDF2 of a password under a salt, taken to be free of collisions.
PasswordHasher_hash_password(password, salt) == [salt |-> salt, password |-> password]

\* Splits the stored "salt:hash" and compares the hash of the password under
\* that salt with the stored one.
PasswordHasher_verify_password_hash(password, password_hash) ==
    PasswordHasher_hash_password(password, password_hash.salt) = password_hash.hashed

PasswordHasher_create_password_hash(password, salt) ==
    [salt |-> salt, hashed |-> PasswordHasher_hash_password(password, salt)]

\* LoginResult(success, ...) with the defaults of the fields left out;
\* optional fields are {} for None, and error_message is "" for None.
LoginResult(success, error_message) ==
    [success |-> success, inspector_id |-> {}, token |-> {},
     error_message |-> error_message, locked_until |-> {}, failed_attempts |-> 0]

InspectorRepository_find_by_email(rows, email) ==
    {i \in DOMAIN rows : rows[i].email = lower(strip(email))}

InspectorRepository_update_login_info(rows, inspector_id, failed_attempts, locked_until) ==
    [rows EXCEPT ![inspector_id].failed_login_attempts = failed_attempts,
                 ![inspector_id].locked_until = locked_until]

InspectorRepository_record_login(rows, inspector_id, utcnow) ==
    [rows EXCEPT ![inspector_id].last_login = {utcnow},
                 ![inspector_id].failed_login_attempts = 0,
                 ![inspector_id].locked_until = {}]

InspectorRepository_get_failed_attempts(rows, inspector_id) ==
    rows[inspector_id].failed_login_attempts

AuthenticationService_record_failed_login_restarting(rows, inspector_id) ==
    InspectorRepository_update_login_info(
        rows, inspector_id,
        IF rows[inspector_id].locked_until = {}
        THEN InspectorRepository_get_failed_attempts(rows, inspector_id) + 1
        ELSE 1,
        {})

\* _record_failed_login: reads the counter and stores it plus one; the call
\* leaves locked_until to its default, None.
AuthenticationService_record_failed_login(rows, inspector_id) ==
    InspectorRepository_update_login_info(
        rows, inspector_id,
        InspectorRepository_get_failed_attempts(rows, inspector_id) + 1, {})

\* _lock_account: stores MAX_FAILED_ATTEMPTS and the lockout expiry.
AuthenticationService_lock_account(rows, inspector_id, utcnow) ==
    InspectorRepository_update_login_info(
        rows, inspector_id, MAX_FAILED_ATTEMPTS,
        {utcnow + LOCKOUT_DURATION_HOURS * 60})

AuthenticationService_is_account_locked_never(rows, inspector_id, utcnow) == FALSE

AuthenticationService_is_account_locked(rows, inspector_id, utcnow) ==
    \E lockout_expiry \in rows[inspector_id].locked_until : lockout_expiry > utcnow

\* secrets.token_urlsafe(32): a string no call returned before, named here
\* by the clock reading of the call that asks for it.
TokenGenerator_generate_token(utcnow) == utcnow

\* self._tokens[token.token] = token
AuthTokenRepository_save_token(stored, auth_token) ==
    IF \E k \in 1..Len(stored) : stored[k].token = auth_token.token
    THEN [k \in 1..Len(stored) |->
             IF stored[k].token = auth_token.token THEN auth_token ELSE stored[k]]
    ELSE Append(stored, auth_token)

\* self._tokens.get(token): {} for None.
AuthTokenRepository_find_token(stored, token) ==
    {stored[k] : k \in {j \in 1..Len(stored) : stored[j].token = token}}

AuthTokenRepository_invalidate_token_keeping(stored, token) ==
    [tokens |-> stored, value |-> AuthTokenRepository_find_token(stored, token) # {}]

AuthTokenRepository_invalidate_token(stored, token) ==
    IF AuthTokenRepository_find_token(stored, token) # {}
    THEN [tokens |-> SelectSeq(stored, LAMBDA t : t.token # token), value |-> TRUE]
    ELSE [tokens |-> stored, value |-> FALSE]

AuthToken_is_expired(auth_token, utcnow) == utcnow > auth_token.expires_at

TokenGenerator_create_auth_token_reused(token, inspector_id, expires_in_hours, utcnow) ==
    [token |-> 1, inspector_id |-> inspector_id,
     expires_at |-> utcnow + expires_in_hours * 60, created_at |-> utcnow]

TokenGenerator_create_auth_token(token, inspector_id, expires_in_hours, utcnow) ==
    [token |-> token, inspector_id |-> inspector_id,
     expires_at |-> utcnow + expires_in_hours * 60, created_at |-> utcnow]

AuthenticationService_login_locks_at_six(known, rows, stored, email, password, utcnow) ==
    LET found == InspectorRepository_find_by_email(rows, email)
        inspector_id == CHOOSE i \in found : TRUE
        unchanged(result) == [login_info |-> rows, tokens |-> stored, result |-> result]
        counted == AuthenticationService_record_failed_login(rows, inspector_id)
        failed_attempts == counted[inspector_id].failed_login_attempts
        lockout_expiry == utcnow + LOCKOUT_DURATION_HOURS * 60
        auth_token == TokenGenerator_create_auth_token(
                          TokenGenerator_generate_token(utcnow), inspector_id,
                          TOKEN_EXPIRY_HOURS, utcnow)
    IN  IF found = {}
        THEN unchanged(LoginResult(FALSE, "Invalid email or password"))
        ELSE IF AuthenticationService_is_account_locked(rows, inspector_id, utcnow)
        THEN unchanged(
                 [LoginResult(FALSE, "Account is temporarily locked due to too many failed login attempts")
                      EXCEPT !.locked_until = rows[inspector_id].locked_until])
        ELSE IF ~Inspector_can_perform_inspections(known[inspector_id])
        THEN unchanged(LoginResult(FALSE, "Account is not active"))
        ELSE IF rows[inspector_id].password_hash = {}
        THEN unchanged(LoginResult(FALSE, "Authentication error"))
        ELSE IF ~PasswordHasher_verify_password_hash(
                     password, CHOOSE h \in rows[inspector_id].password_hash : TRUE)
        THEN IF failed_attempts > MAX_FAILED_ATTEMPTS
             THEN [login_info |->
                       InspectorRepository_update_login_info(
                           counted, inspector_id, MAX_FAILED_ATTEMPTS, {lockout_expiry}),
                   tokens |-> stored,
                   result |->
                       [LoginResult(FALSE, "Account locked due to too many failed login attempts")
                            EXCEPT !.locked_until = {lockout_expiry},
                                   !.failed_attempts = failed_attempts]]
             ELSE [login_info |-> counted, tokens |-> stored,
                   result |-> [LoginResult(FALSE, "Invalid email or password")
                                   EXCEPT !.failed_attempts = failed_attempts]]
        ELSE [login_info |->
                  InspectorRepository_record_login(
                      InspectorRepository_update_login_info(rows, inspector_id, 0, {}),
                      inspector_id, utcnow),
              tokens |-> AuthTokenRepository_save_token(stored, auth_token),
              result |-> [LoginResult(TRUE, "")
                              EXCEPT !.inspector_id = {inspector_id},
                                     !.token = {auth_token}]]

\* login(credentials): the login rows and the stored tokens after the call,
\* and the LoginResult returned.
AuthenticationService_login(known, rows, stored, email, password, utcnow) ==
    LET found == InspectorRepository_find_by_email(rows, email)
        inspector_id == CHOOSE i \in found : TRUE
        unchanged(result) == [login_info |-> rows, tokens |-> stored, result |-> result]
        \* _record_failed_login, then _get_failed_attempts
        counted == AuthenticationService_record_failed_login(rows, inspector_id)
        failed_attempts == counted[inspector_id].failed_login_attempts
        \* _lock_account
        lockout_expiry == utcnow + LOCKOUT_DURATION_HOURS * 60
        auth_token == TokenGenerator_create_auth_token(
                          TokenGenerator_generate_token(utcnow), inspector_id,
                          TOKEN_EXPIRY_HOURS, utcnow)
    IN  IF found = {}
        THEN unchanged(LoginResult(FALSE, "Invalid email or password"))
        ELSE IF AuthenticationService_is_account_locked(rows, inspector_id, utcnow)
        THEN unchanged(
                 [LoginResult(FALSE, "Account is temporarily locked due to too many failed login attempts")
                      EXCEPT !.locked_until = rows[inspector_id].locked_until])
        ELSE IF ~Inspector_can_perform_inspections(known[inspector_id])
        THEN unchanged(LoginResult(FALSE, "Account is not active"))
        ELSE IF rows[inspector_id].password_hash = {}
        THEN unchanged(LoginResult(FALSE, "Authentication error"))
        ELSE IF ~PasswordHasher_verify_password_hash(
                     password, CHOOSE h \in rows[inspector_id].password_hash : TRUE)
        THEN IF failed_attempts >= MAX_FAILED_ATTEMPTS
             THEN [login_info |->
                       InspectorRepository_update_login_info(
                           counted, inspector_id, MAX_FAILED_ATTEMPTS, {lockout_expiry}),
                   tokens |-> stored,
                   result |->
                       [LoginResult(FALSE, "Account locked due to too many failed login attempts")
                            EXCEPT !.locked_until = {lockout_expiry},
                                   !.failed_attempts = failed_attempts]]
             ELSE [login_info |-> counted, tokens |-> stored,
                   result |-> [LoginResult(FALSE, "Invalid email or password")
                                   EXCEPT !.failed_attempts = failed_attempts]]
        ELSE [login_info |->
                  InspectorRepository_record_login(
                      InspectorRepository_update_login_info(rows, inspector_id, 0, {}),
                      inspector_id, utcnow),
              tokens |-> AuthTokenRepository_save_token(stored, auth_token),
              result |-> [LoginResult(TRUE, "")
                              EXCEPT !.inspector_id = {inspector_id},
                                     !.token = {auth_token}]]

\* validate_token(token): the inspector returned, {} for None.
AuthenticationService_validate_token(known, stored, token, utcnow) ==
    LET found == AuthTokenRepository_find_token(stored, token)
        auth_token == CHOOSE t \in found : TRUE
    IN  IF found = {} THEN {}
        ELSE IF AuthToken_is_expired(auth_token, utcnow) THEN {}
        ELSE IF auth_token.inspector_id \notin DOMAIN known THEN {}
        ELSE IF ~Inspector_can_perform_inspections(known[auth_token.inspector_id]) THEN {}
        ELSE {known[auth_token.inspector_id]}

AuthenticationService_logout(stored, token) ==
    AuthTokenRepository_invalidate_token(stored, token)

(***************************************************************************)
(* The public report lookup: GET /{license_plate}                          *)
(***************************************************************************)
\* find_latest_by_license_plate: the rows of the plate that no other row of
\* the plate is newer than (ORDER BY created_at DESC LIMIT 1 takes one).
InspectionRepository_find_latest_by_license_plate(stored, license_plate) ==
    LET normalized_plate == remove(remove(upper(license_plate), " "), "-")
        rows == {k \in DOMAIN stored : stored[k].license_plate = normalized_plate}
    IN  {stored[k] : k \in {j \in rows :
                                \A other \in rows :
                                    stored[other].created_at <= stored[j].created_at}}

\* get_latest_inspection_by_license_plate: the error raised, or the rows the
\* repository may return ({} for None).
InspectionService_get_latest_inspection_by_license_plate(stored, license_plate) ==
    IF license_plate = <<>> \/ strip(license_plate) = <<>>
    THEN [error |-> "License plate cannot be empty", value |-> {}]
    ELSE [error |-> "",
          value |-> InspectionRepository_find_latest_by_license_plate(
                        stored, InspectionService_normalize_license_plate(license_plate))]

\* get_inspection_report, given the inspection the service returned ({} for
\* None): the HTTP status and the report.  The status of the inspection is
\* compared with "COMPLETED", and the report is built from attributes
\* (requires_reinspection, is_safe, total_score, completed_at) that an
\* Inspection does not have.
get_inspection_report(license_plate, latest) ==
    IF upper(strip(license_plate)) = <<>>
    THEN [status |-> "400", error |-> "License plate cannot be empty", value |-> <<>>]
    ELSE IF latest.error # ""
    THEN [status |-> "400", error |-> latest.error, value |-> <<>>]
    ELSE IF latest.value = {}
    THEN [status |-> "404", error |-> "No inspection report found", value |-> <<>>]
    ELSE IF StringChars((CHOOSE i \in latest.value : TRUE).status) # StringChars("COMPLETED")
    THEN [status |-> "404", error |-> "No completed inspection found", value |-> <<>>]
    ELSE [status |-> "500",
          error |-> "An error occurred while retrieving the inspection report",
          value |-> <<>>]

(***************************************************************************)
(* Inputs                                                                  *)
(***************************************************************************)
\* One score of v for each of the eight checkpoints, in catalog order.
AllAt(v) ==
    [i \in 1..Len(Car_get_required_checkpoints) |->
        CheckpointScore(Car_get_required_checkpoints[i], v)]

NotAScore ==
    [cls |-> "dict", checkpoint_type |-> "tires", score |-> 8, notes |-> ""]

\* Arguments of update_checkpoint_scores.
ScoreListInputs ==
    { [is_list |-> TRUE, items |-> AllAt(8)],
      [is_list |-> TRUE, items |-> AllAt(3)],
      [is_list |-> TRUE, items |-> [AllAt(8) EXCEPT ![4].score = 4]],
      [is_list |-> TRUE, items |-> Append(AllAt(10), CheckpointScore("braking_system", 10))],
      [is_list |-> TRUE, items |-> Append(AllAt(8), CheckpointScore("tires", 4))],
      [is_list |-> TRUE,
       items |-> <<CheckpointScore("braking_system", 8), CheckpointScore("tires", 7)>>],
      [is_list |-> TRUE,
       items |-> <<CheckpointScore("tires", 8), CheckpointScore("tires", 4)>>],
      [is_list |-> TRUE, items |-> <<>>],
      [is_list |-> TRUE,
       items |-> <<CheckpointScore("braking_system", 8), NotAScore>>],
      [is_list |-> FALSE, items |-> AllAt(8)] }

\* Arguments of add_checkpoint_score.
AddScoreInputs ==
    {CheckpointScore(t, v) :
        t \in {"braking_system", "tires", "body_structure"}, v \in {4, 9}}
    \cup {NotAScore}

\* Observation texts, as sequences of characters.
ObservationInputs ==
    { <<>>, <<" ", "o", "k", " ">>, <<"n", "o">> }

\* Arguments of complete_inspection: None, or a text.
FinalObservationInputs == { {}, {<<"e", "n", "d", "\n">>} }

\* Score values the policy inputs are built from.
PolicyScoreValues == {1, 4, 5, 7, 8, 10}

\* The score lists of at most n scores whose scores do not decrease along
\* the list; the i-th score is for the i-th checkpoint of the catalog, and a
\* ninth score is a second one for the first checkpoint.
RECURSIVE PolicyScoreLists(_)
PolicyScoreLists(n) ==
    IF n = 0 THEN {<<>>}
    ELSE LET shorter == PolicyScoreLists(n - 1)
         IN  shorter \cup
             UNION { { Append(l, CheckpointScore(
                                    Car_get_required_checkpoints[(Len(l) % 8) + 1], v)) :
                         v \in {w \in PolicyScoreValues :
                                    l = <<>> \/ w >= l[Len(l)].score} } :
                     l \in {x \in shorter : Len(x) = n - 1} }

\* The clock when the booking service starts: 07:58 of day 0, so that the
\* calls are made at 07:59, 08:00, 08:01, ...
ServiceStart == 478

\* Appointment datetimes: 08:00 and 09:00 of day 0 (slot starts), 08:30 of
\* day 0 (inside a slot), and 09:00 of day 40.
At0800 == datetime_combine(0, time_of_hour(8))

At0830 == datetime_combine(0, time_of_hour(8) + 30)

At0900 == datetime_combine(0, time_of_hour(9))

Day40At0900 == datetime_combine(40, time_of_hour(9))

\* License plates as given by callers.
PlateAbc123 == <<"a", "b", "c", "1", "2", "3">>

PlateXy9 == <<" ", "x", "y", "9", " ">>

PlateInvalid == <<"a", "b", " ", "1", "2">>

\* Arguments of request_appointment: license plate, datetime, user.
RequestInputs ==
    { <<PlateAbc123, At0800, "u1">>,
      <<PlateXy9, At0800, "u2">>,
      <<PlateAbc123, At0900, "u1">>,
      <<PlateXy9, At0900, "u2">>,
      <<PlateAbc123, At0830, "u1">>,
      <<PlateInvalid, At0900, "u1">>,
      <<PlateAbc123, At0900, "ghost">>,
      <<PlateAbc123, Day40At0900, "u1">> }

\* Days asked of get_available_slots.
SlotDateInputs == {0, 40}

\* A time_slots table is empty, or holds one row: 09:00 of day 0, free.
TimeSlotRowInputs ==
    { {},
      { TimeSlot(At0900, time_of_hour(9), time_of_hour(10), TRUE, 1, 0).value[1] } }

\* License plates handed to create_inspection and to Inspection(...).
InspectionPlateInputs ==
    { <<"a", "b", "c", " ", "1", "2", "3">>,
      <<" ", "a", "b", "-", "1", " ">>,
      <<" ", " ">>,
      <<"-">>,
      <<>> }

\* Vehicle types handed to create_inspection: one of the enum, one not.
VehicleTypeInputs == {"car", "truck"}

\* The e-mail address stored for an inspector.
EmailOf(inspector_id) ==
    IF inspector_id = "i1" THEN <<"a", "@", "x">> ELSE <<"b", "@", "x">>

\* The password every stored hash was made from.
RightPassword == "rightpassword"

\* Credentials given to login: stored and unknown addresses, one of them
\* padded and in capitals; the right password and a wrong one.
EmailInputs ==
    { <<"a", "@", "x">>, <<" ", "A", "@", "x", " ">>, <<"b", "@", "x">>, <<"c", "@", "x">> }

PasswordInputs == {RightPassword, "wrongpassword"}

\* Minutes that pass between two logins.
AuthClockSteps == {1, 60}

\* Minutes that pass between two session calls: one, or more than the eight
\* hours a token lives.
SessionClockSteps == {1, 481}

\* Token strings given to validate_token and logout: ones that logins at
\* minutes 1, 2 and 3 issue, and one no login issues.
TokenInputs == {1, 2, 3, 99}

\* Inspection ids asked for: the stored one and an unknown one.
InspectionIdInputs == {1, 2}

\* Vehicle types given to the preview calculation.
PreviewVehicleTypeInputs == {"car", "motorcycle", "truck"}

\* Inspector ids: i1 and i2 are stored inspectors, i3 is nobody's id.
InspectorIds == {"i1", "i2"}

InspectorIdInputs == {"i1", "i2", "i3"}

\* The TimeSlot values the constructor accepts, with max_bookings up to
\* MaxSlotBookings; is_available is whatever the caller passes.
TimeSlotInputs ==
    LET built == { TimeSlot(At0900, time_of_hour(9), time_of_hour(10),
                            is_available, max_bookings, current_bookings) :
                       is_available \in BOOLEAN,
                       max_bookings \in 1..MaxSlotBookings,
                       current_bookings \in 0..(MaxSlotBookings + 1) }
    IN  { r.value[1] : r \in {b \in built : b.error = ""} }

\* Generator configurations with 0 <= start_hour < end_hour <= 23 and
\* slot_duration_minutes >= 1.
GeneratorHourInputs == {0, 8, 10, 14, 17, 22, 23}

GeneratorDurationInputs == {30, 45, 60, 90, 120, 600, 960, 1440, 1500}

GeneratorInputs ==
    { TimeSlotGenerator(start_hour, end_hour, slot_duration_minutes) :
          start_hour \in GeneratorHourInputs,
          end_hour \in GeneratorHourInputs,
          slot_duration_minutes \in GeneratorDurationInputs }

\* The dates slots are generated for.
GeneratorDateInputs == 0..MaxGeneratorDate

\* The inspection a specification that is about something else holds.
NoInspection == Inspection(<<"A", "B", "C", "1">>, "car", "i1", 1, 0).value[1]

\* The booking a specification that is about something else holds.
NoBooking == Booking(<<"A", "B", "C", "1">>, 0, "u1", 1, "pending", 0)

\* The booking service of a specification that makes no call on it.
BookingServiceIdle ==
    /\ repo_kind = "sql"
    /\ bookings = <<>>
    /\ vehicles = {}
    /\ time_slot_rows = {}
    /\ requests = <<>>

\* The inspection service of a specification that makes no call on it.
InspectionServiceIdle ==
    /\ inspectors = <<>>
    /\ inspections = <<>>

\* The login state of a specification that makes no login.
AuthIdle ==
    /\ login_info = <<>>
    /\ tokens = <<>>

\* The generator of a specification that builds no other one: the default.
ToolIdle ==
    /\ generator = TimeSlotGenerator(8, 17, 60)
    /\ AuthIdle
    /\ calls = <<>>

\* The service state of a specification that makes no service call.
ServiceIdle ==
    /\ BookingServiceIdle
    /\ InspectionServiceIdle
    /\ args = <<>>
    /\ slot_trace = <<>>
    /\ ToolIdle

(***************************************************************************)
(* SpecBooking: one Booking, any sequence of confirm / cancel / complete   *)
(***************************************************************************)
InitBooking ==
    /\ now = 0
    /\ booking \in {Booking(<<"A", "B", "C", "1">>, 0, "u1", 1, s, 0) : s \in BookingStatus}
    /\ inspection = NoInspection
    /\ policy_vehicle = "car"
    /\ policy_scores = <<>>
    /\ ret = NoRet
    /\ ServiceIdle

BookingConfirm ==
    /\ now < BookingMaxTime
    /\ LET r == Booking_confirm(booking, now + 1)
       IN  /\ booking' = r.booking
           /\ ret' = [NoRet EXCEPT !.op = "confirm", !.error = r.error]
    /\ now' = now + 1
    /\ UNCHANGED <<inspection, policy_vehicle, policy_scores, serviceVars>>

BookingCancel ==
    /\ now < BookingMaxTime
    /\ LET r == Booking_cancel(booking, now + 1)
       IN  /\ booking' = r.booking
           /\ ret' = [NoRet EXCEPT !.op = "cancel", !.error = r.error]
    /\ now' = now + 1
    /\ UNCHANGED <<inspection, policy_vehicle, policy_scores, serviceVars>>

BookingComplete ==
    /\ now < BookingMaxTime
    /\ LET r == Booking_complete(booking, now + 1)
       IN  /\ booking' = r.booking
           /\ ret' = [NoRet EXCEPT !.op = "complete", !.error = r.error]
    /\ now' = now + 1
    /\ UNCHANGED <<inspection, policy_vehicle, policy_scores, serviceVars>>

NextBooking == BookingConfirm \/ BookingCancel \/ BookingComplete

SpecBooking == InitBooking /\ [][NextBooking]_vars

(***************************************************************************)
(* SpecInspection: one draft Inspection, any sequence of the aggregate's   *)
(* methods                                                                 *)
(***************************************************************************)
InitInspection ==
    /\ now = 0
    /\ booking = NoBooking
    /\ inspection \in {Inspection(<<"A", "B", "C", "1">>, t, "i1", 1, 0).value[1] : t \in VehicleType}
    /\ policy_vehicle = "car"
    /\ policy_scores = <<>>
    /\ ret = NoRet
    /\ ServiceIdle

UpdateCheckpointScores ==
    /\ now < InspectionMaxTime
    /\ \E scores \in ScoreListInputs :
        LET r == Inspection_update_checkpoint_scores(inspection, scores, now + 1)
        IN  /\ inspection' = r.inspection
            /\ args' = <<scores>>
            /\ ret' = [NoRet EXCEPT !.op = "update_checkpoint_scores",
                                    !.error = r.error]
    /\ now' = now + 1
    /\ UNCHANGED <<booking, policy_vehicle, policy_scores, storeVars>>

AddCheckpointScore ==
    /\ now < InspectionMaxTime
    /\ \E score \in AddScoreInputs :
        LET r == Inspection_add_checkpoint_score(inspection, score, now + 1)
        IN  /\ inspection' = r.inspection
            /\ args' = <<score>>
            /\ ret' = [NoRet EXCEPT !.op = "add_checkpoint_score",
                                    !.error = r.error]
    /\ now' = now + 1
    /\ UNCHANGED <<booking, policy_vehicle, policy_scores, storeVars>>

UpdateObservations ==
    /\ now < InspectionMaxTime
    /\ \E observations \in ObservationInputs :
        LET r == Inspection_update_observations(inspection, observations, now + 1)
        IN  /\ inspection' = r.inspection
            /\ args' = <<observations>>
            /\ ret' = [NoRet EXCEPT !.op = "update_observations",
                                    !.error = r.error]
    /\ now' = now + 1
    /\ UNCHANGED <<booking, policy_vehicle, policy_scores, storeVars>>

CompleteInspection ==
    /\ now < InspectionMaxTime
    /\ \E final_observations \in FinalObservationInputs :
        LET r == Inspection_complete_inspection(inspection, final_observations, now + 1)
        IN  /\ inspection' = r.inspection
            /\ args' = <<final_observations>>
            /\ ret' = [NoRet EXCEPT !.op = "complete_inspection",
                                    !.error = r.error, !.missing = r.missing]
    /\ now' = now + 1
    /\ UNCHANGED <<booking, policy_vehicle, policy_scores, storeVars>>

\* calculate_safety_result reads no clock; the call is still a step.
CalculateSafetyResult ==
    /\ now < InspectionMaxTime
    /\ LET r == Inspection_calculate_safety_result(inspection)
       IN  /\ inspection' = r.inspection
           /\ args' = <<>>
           /\ ret' = [NoRet EXCEPT
                    !.op = "calculate_safety_result",
                    !.error = r.error, !.value = r.value,
                    !.status = IF r.error = "" THEN SafetyResult_status(r.value[1])
                               ELSE ""]
    /\ now' = now + 1
    /\ UNCHANGED <<booking, policy_vehicle, policy_scores, storeVars>>

NextInspection ==
    \/ UpdateCheckpointScores
    \/ AddCheckpointScore
    \/ UpdateObservations
    \/ CompleteInspection
    \/ CalculateSafetyResult

SpecInspection == InitInspection /\ [][NextInspection]_vars

(***************************************************************************)
(* SpecSafety: a vehicle policy applied to a score list                    *)
(***************************************************************************)
InitSafety ==
    /\ now = 0
    /\ booking = NoBooking
    /\ inspection = NoInspection
    /\ policy_vehicle \in VehicleType
    /\ policy_scores \in PolicyScoreLists(MaxScores)
    /\ ret = NoRet
    /\ ServiceIdle

CarCalculateSafety ==
    /\ ret.op = "none"
    /\ policy_vehicle = "car"
    /\ LET r == Car_calculate_safety(policy_scores)
       IN  ret' = [NoRet EXCEPT
                    !.op = "calculate_safety",
                    !.error = r.error, !.value = r.value,
                    !.status = IF r.error = "" THEN SafetyResult_status(r.value[1])
                               ELSE ""]
    /\ UNCHANGED <<now, booking, inspection, policy_vehicle, policy_scores, serviceVars>>

MotorcycleCalculateSafety ==
    /\ ret.op = "none"
    /\ policy_vehicle = "motorcycle"
    /\ LET r == Motorcycle_calculate_safety(policy_scores)
       IN  ret' = [NoRet EXCEPT
                    !.op = "calculate_safety",
                    !.error = r.error, !.value = r.value,
                    !.status = IF r.error = "" THEN SafetyResult_status(r.value[1])
                               ELSE ""]
    /\ UNCHANGED <<now, booking, inspection, policy_vehicle, policy_scores, serviceVars>>

NextSafety == CarCalculateSafety \/ MotorcycleCalculateSafety

SpecSafety == InitSafety /\ [][NextSafety]_vars

(***************************************************************************)
(* SpecService: the BookingService over an in-memory or an SQL booking     *)
(* repository; every call runs to its end before the next one starts       *)
(***************************************************************************)
EntityIdle ==
    /\ booking = NoBooking
    /\ inspection = NoInspection
    /\ policy_vehicle = "car"
    /\ policy_scores = <<>>

InitService ==
    /\ now = ServiceStart
    /\ EntityIdle
    /\ ToolIdle
    /\ ret = NoRet
    /\ repo_kind \in {"memory", "sql"}
    /\ bookings = <<>>
    /\ vehicles = {}
    /\ time_slot_rows \in (IF repo_kind = "sql" THEN TimeSlotRowInputs ELSE {{}})
    /\ args = <<>>
    /\ requests = <<>>
    /\ InspectionServiceIdle
    /\ slot_trace = <<>>

RequestAppointment ==
    /\ now < ServiceStart + ServiceMaxTime
    /\ \E input \in RequestInputs :
          LET r == BookingService_request_appointment(
                       repo_kind, bookings, vehicles, input[1], input[2], input[3],
                       now + 1, datetime_date(ServiceStart))
          IN  /\ bookings' = r.bookings
              /\ vehicles' = r.vehicles
              /\ args' = input
              /\ ret' = [NoRet EXCEPT !.op = "request_appointment",
                                      !.error = r.error, !.value = r.value]
    /\ now' = now + 1
    /\ UNCHANGED <<entityVars, toolVars, repo_kind, time_slot_rows, requests, inspectionServiceVars, slot_trace>>

ConfirmBooking ==
    /\ now < ServiceStart + ServiceMaxTime
    /\ \E booking_id \in 1..(Len(bookings) + 1), user_id \in Users :
          LET r == BookingService_confirm_booking(bookings, booking_id, user_id, now + 1)
          IN  /\ bookings' = r.bookings
              /\ args' = <<booking_id, user_id>>
              /\ ret' = [NoRet EXCEPT !.op = "confirm_booking",
                                      !.error = r.error, !.value = r.value]
    /\ now' = now + 1
    /\ UNCHANGED <<entityVars, toolVars, repo_kind, vehicles, time_slot_rows, requests, inspectionServiceVars, slot_trace>>

CancelBooking ==
    /\ now < ServiceStart + ServiceMaxTime
    /\ \E booking_id \in 1..(Len(bookings) + 1), user_id \in Users :
          LET r == BookingService_cancel_booking(bookings, booking_id, user_id, now + 1)
          IN  /\ bookings' = r.bookings
              /\ args' = <<booking_id, user_id>>
              /\ ret' = [NoRet EXCEPT !.op = "cancel_booking",
                                      !.error = r.error, !.value = r.value]
    /\ now' = now + 1
    /\ UNCHANGED <<entityVars, toolVars, repo_kind, vehicles, time_slot_rows, requests, inspectionServiceVars, slot_trace>>

GetAvailableSlots ==
    /\ now < ServiceStart + ServiceMaxTime
    /\ \E target_date \in SlotDateInputs :
          LET r == BookingService_get_available_slots(
                       generator, repo_kind, bookings, time_slot_rows, target_date,
                       datetime_date(ServiceStart))
          IN  /\ args' = <<target_date>>
              /\ ret' = [NoRet EXCEPT !.op = "get_available_slots",
                                      !.error = r.error, !.value = r.value]
    /\ now' = now + 1
    /\ UNCHANGED <<entityVars, toolVars, repo_kind, bookings, vehicles, time_slot_rows, requests, inspectionServiceVars, slot_trace>>

NextService ==
    RequestAppointment \/ ConfirmBooking \/ CancelBooking \/ GetAvailableSlots

SpecService == InitService /\ [][NextService]_vars

(***************************************************************************)
(* SpecRace: two request_appointment calls in flight over the SQL          *)
(* repository.  A call gives way to the other at its awaits; the step that *)
(* matters is between the availability check and the save.                 *)
(***************************************************************************)
Callers == {1, 2}

\* Arguments of the interleaved requests.
RaceInputs ==
    { <<PlateAbc123, At0900, "u1">>,
      <<PlateXy9, At0900, "u2">>,
      <<PlateAbc123, At0800, "u1">>,
      <<PlateXy9, At0830, "u2">>,
      <<PlateInvalid, At0900, "u2">> }

InitRace ==
    /\ now = ServiceStart
    /\ EntityIdle
    /\ ToolIdle
    /\ ret = NoRet
    /\ repo_kind = "sql"
    /\ bookings = <<>>
    /\ vehicles = {}
    /\ time_slot_rows = {}
    /\ args = <<>>
    /\ requests \in [Callers -> [pc : {"called"}, input : RaceInputs, error : {""}]]
    /\ InspectionServiceIdle
    /\ slot_trace = <<>>

\* Caller c runs request_appointment up to the save: lines 107-125.
RaceCheck(c) ==
    /\ requests[c].pc = "called"
    /\ LET input == requests[c].input
           error == BookingService_request_appointment_checks(
                        repo_kind, bookings, input[1], input[2], input[3],
                        now + 1, datetime_date(ServiceStart))
       IN  /\ requests' = [requests EXCEPT
                              ![c].pc = IF error = "" THEN "checked" ELSE "raised",
                              ![c].error = error]
           /\ args' = input
           /\ ret' = [NoRet EXCEPT !.op = "request_appointment:check", !.error = error]
    /\ now' = now + 1
    /\ UNCHANGED <<entityVars, toolVars, repo_kind, bookings, vehicles, time_slot_rows, inspectionServiceVars, slot_trace>>

\* Caller c runs the rest of request_appointment: lines 127-145.
RaceStore(c) ==
    /\ requests[c].pc = "checked"
    /\ LET input == requests[c].input
           r == BookingService_request_appointment_store(
                    bookings, vehicles, input[1], input[2], input[3], now + 1)
       IN  /\ bookings' = r.bookings
           /\ vehicles' = r.vehicles
           /\ requests' = [requests EXCEPT
                              ![c].pc = IF r.error = "" THEN "returned" ELSE "raised",
                              ![c].error = r.error]
           /\ args' = input
           /\ ret' = [NoRet EXCEPT !.op = "request_appointment:store",
                                   !.error = r.error, !.value = r.value]
    /\ now' = now + 1
    /\ UNCHANGED <<entityVars, toolVars, repo_kind, time_slot_rows, inspectionServiceVars, slot_trace>>

NextRace == \E c \in Callers : RaceCheck(c) \/ RaceStore(c)

SpecRace == InitRace /\ [][NextRace]_vars

(***************************************************************************)
(* SpecInspectionService: create_inspection over stored inspectors whose   *)
(* status changes, and direct construction of the aggregate                *)
(***************************************************************************)
InitInspectionService ==
    /\ now = 0
    /\ EntityIdle
    /\ ToolIdle
    /\ ret = NoRet
    /\ BookingServiceIdle
    /\ inspectors \in [InspectorIds -> {Inspector(i, s, 0) :
                                           i \in InspectorIds, s \in InspectorStatus}]
    /\ \A i \in InspectorIds : inspectors[i].id = i
    /\ inspectors["i1"].status = "active"
    /\ inspections = <<>>
    /\ args = <<>>
    /\ slot_trace = <<>>

CreateInspection ==
    /\ now < InspectionServiceMaxTime
    /\ \E license_plate \in InspectionPlateInputs,
          vehicle_type \in VehicleTypeInputs,
          inspector_id \in InspectorIdInputs :
          LET r == InspectionService_create_inspection(
                       inspectors, inspections, license_plate, vehicle_type,
                       inspector_id, now + 1)
          IN  /\ inspections' = r.inspections
              /\ args' = <<license_plate, vehicle_type, inspector_id>>
              /\ ret' = [NoRet EXCEPT !.op = "create_inspection",
                                      !.error = r.error, !.raises = r.raises,
                                      !.value = r.value]
    /\ now' = now + 1
    /\ UNCHANGED <<entityVars, toolVars, bookingServiceVars, inspectors, slot_trace>>

\* Inspection(license_plate, vehicle_type, inspector_id) called directly.
ConstructInspection ==
    /\ now < InspectionServiceMaxTime
    /\ \E license_plate \in InspectionPlateInputs,
          vehicle_type \in VehicleTypeInputs,
          inspector_id \in {"i1", "not-a-uuid"} :
          LET r == Inspection(license_plate, vehicle_type, inspector_id,
                              Len(inspections) + 1, now + 1)
          IN  /\ args' = <<license_plate, vehicle_type, inspector_id>>
              /\ ret' = [NoRet EXCEPT !.op = "Inspection",
                                      !.error = r.error,
                                      !.raises = IF r.error = "" THEN ""
                                                 ELSE "ValueError",
                                      !.value = r.value]
    /\ now' = now + 1
    /\ UNCHANGED <<entityVars, toolVars, bookingServiceVars, inspectors, inspections, slot_trace>>

InspectorActivate ==
    /\ now < InspectionServiceMaxTime
    /\ \E i \in InspectorIds :
          /\ inspectors' = [inspectors EXCEPT ![i] = Inspector_activate(@, now + 1)]
          /\ args' = <<i>>
    /\ ret' = [NoRet EXCEPT !.op = "activate"]
    /\ now' = now + 1
    /\ UNCHANGED <<entityVars, toolVars, bookingServiceVars, inspections, slot_trace>>

InspectorDeactivate ==
    /\ now < InspectionServiceMaxTime
    /\ \E i \in InspectorIds :
          /\ inspectors' = [inspectors EXCEPT ![i] = Inspector_deactivate(@, now + 1)]
          /\ args' = <<i>>
    /\ ret' = [NoRet EXCEPT !.op = "deactivate"]
    /\ now' = now + 1
    /\ UNCHANGED <<entityVars, toolVars, bookingServiceVars, inspections, slot_trace>>

InspectorSuspend ==
    /\ now < InspectionServiceMaxTime
    /\ \E i \in InspectorIds :
          /\ inspectors' = [inspectors EXCEPT ![i] = Inspector_suspend(@, now + 1)]
          /\ args' = <<i>>
    /\ ret' = [NoRet EXCEPT !.op = "suspend"]
    /\ now' = now + 1
    /\ UNCHANGED <<entityVars, toolVars, bookingServiceVars, inspections, slot_trace>>

NextInspectionService ==
    \/ CreateInspection
    \/ ConstructInspection
    \/ InspectorActivate
    \/ InspectorDeactivate
    \/ InspectorSuspend

SpecInspectionService == InitInspectionService /\ [][NextInspectionService]_vars

(***************************************************************************)
(* SpecInspectionWorkflow: the service's calls on one stored draft         *)
(***************************************************************************)
InitInspectionWorkflow ==
    /\ now = 0
    /\ EntityIdle
    /\ ToolIdle
    /\ ret = NoRet
    /\ BookingServiceIdle
    /\ inspectors = [i \in InspectorIds |-> Inspector(i, "active", 0)]
    /\ \E vehicle_type \in VehicleType :
          inspections = <<Inspection(PlateAbc123, vehicle_type, "i1", 1, 0).value[1]>>
    /\ args = <<>>
    /\ slot_trace = <<>>

UpdateInspectionScores ==
    /\ now < WorkflowMaxTime
    /\ \E inspection_id \in InspectionIdInputs, checkpoint_scores \in ScoreListInputs :
          LET r == InspectionService_update_checkpoint_scores(
                       inspections, inspection_id, checkpoint_scores, now + 1)
          IN  /\ inspections' = r.inspections
              /\ args' = <<inspection_id, checkpoint_scores>>
              /\ ret' = [NoRet EXCEPT !.op = "InspectionService.update_checkpoint_scores",
                                      !.error = r.error, !.raises = r.raises,
                                      !.value = r.value, !.missing = r.missing]
    /\ now' = now + 1
    /\ UNCHANGED <<entityVars, toolVars, bookingServiceVars, inspectors, slot_trace>>

CompleteStoredInspection ==
    /\ now < WorkflowMaxTime
    /\ \E inspection_id \in InspectionIdInputs, observations \in FinalObservationInputs :
          LET r == InspectionService_complete_inspection(
                       inspections, inspection_id, observations, now + 1)
          IN  /\ inspections' = r.inspections
              /\ args' = <<inspection_id, observations>>
              /\ ret' = [NoRet EXCEPT !.op = "InspectionService.complete_inspection",
                                      !.error = r.error, !.raises = r.raises,
                                      !.value = r.value, !.missing = r.missing]
    /\ now' = now + 1
    /\ UNCHANGED <<entityVars, toolVars, bookingServiceVars, inspectors, slot_trace>>

PreviewSafetyResult ==
    /\ now < WorkflowMaxTime
    /\ \E checkpoint_scores \in ScoreListInputs, vehicle_type \in PreviewVehicleTypeInputs :
          LET r == InspectionService_calculate_safety_result(
                       checkpoint_scores.items, vehicle_type)
          IN  /\ args' = <<checkpoint_scores.items, vehicle_type>>
              /\ ret' = [NoRet EXCEPT !.op = "InspectionService.calculate_safety_result",
                                      !.error = r.error, !.raises = r.raises,
                                      !.value = r.value]
    /\ now' = now + 1
    /\ UNCHANGED <<entityVars, toolVars, bookingServiceVars, inspectionServiceVars, slot_trace>>

NextInspectionWorkflow ==
    \/ UpdateInspectionScores
    \/ CompleteStoredInspection
    \/ PreviewSafetyResult

SpecInspectionWorkflow == InitInspectionWorkflow /\ [][NextInspectionWorkflow]_vars

(***************************************************************************)
(* SpecAuth: logins of two inspectors as the clock advances                *)
(***************************************************************************)
InitAuth ==
    /\ now = 0
    /\ EntityIdle
    /\ ret = NoRet
    /\ BookingServiceIdle
    /\ generator = TimeSlotGenerator(8, 17, 60)
    /\ \E status \in {"active", "suspended"} :
          inspectors = [i \in InspectorIds |->
                           Inspector(i, IF i = "i1" THEN "active" ELSE status, 0)]
    /\ inspections = <<>>
    /\ login_info =
           [i \in InspectorIds |->
               [email |-> EmailOf(i),
                password_hash |-> {PasswordHasher_create_password_hash(RightPassword, i)},
                last_login |-> {},
                failed_login_attempts |-> 0,
                locked_until |-> {}]]
    /\ tokens = <<>>
    /\ calls = <<>>
    /\ args = <<>>
    /\ slot_trace = <<>>

Login ==
    /\ now < AuthMaxTime
    /\ \E email \in EmailInputs, password \in PasswordInputs, step \in AuthClockSteps :
          LET r == AuthenticationService_login(
                       inspectors, login_info, tokens, email, password, now + step)
          IN  /\ login_info' = r.login_info
              /\ tokens' = r.tokens
              /\ args' = <<email, password>>
              /\ ret' = [NoRet EXCEPT !.op = "login",
                                      !.error = r.result.error_message,
                                      !.value = <<r.result>>]
              /\ now' = now + step
    /\ UNCHANGED <<entityVars, generator, calls, bookingServiceVars, inspectionServiceVars, slot_trace>>

NextAuth ==
    \/ Login

SpecAuth == InitAuth /\ [][NextAuth]_vars

(***************************************************************************)
(* SpecSession: logins, token validation and logout, while inspectors are  *)
(* deactivated and activated                                               *)
(***************************************************************************)
SessionLogin ==
    /\ now < SessionMaxTime
    /\ \E email \in EmailInputs, password \in PasswordInputs, step \in SessionClockSteps :
          LET r == AuthenticationService_login(
                       inspectors, login_info, tokens, email, password, now + step)
          IN  /\ login_info' = r.login_info
              /\ tokens' = r.tokens
              /\ args' = <<email, password>>
              /\ ret' = [NoRet EXCEPT !.op = "login",
                                      !.error = r.result.error_message,
                                      !.value = <<r.result>>]
              /\ now' = now + step
    /\ UNCHANGED <<entityVars, generator, calls, bookingServiceVars, inspectionServiceVars, slot_trace>>

ValidateToken ==
    /\ now < SessionMaxTime
    /\ \E token \in TokenInputs, step \in SessionClockSteps :
          LET r == AuthenticationService_validate_token(inspectors, tokens, token, now + step)
          IN  /\ args' = <<token>>
              /\ ret' = [NoRet EXCEPT !.op = "validate_token",
                                      !.value = IF r = {} THEN <<>>
                                                ELSE <<CHOOSE i \in r : TRUE>>]
              /\ now' = now + step
    /\ UNCHANGED <<entityVars, toolVars, bookingServiceVars, inspectionServiceVars, slot_trace>>

Logout ==
    /\ now < SessionMaxTime
    /\ \E token \in TokenInputs, step \in SessionClockSteps :
          LET r == AuthenticationService_logout(tokens, token)
          IN  /\ tokens' = r.tokens
              /\ args' = <<token>>
              /\ ret' = [NoRet EXCEPT !.op = "logout", !.value = <<r.value>>]
              /\ now' = now + step
    /\ UNCHANGED <<entityVars, generator, login_info, calls, bookingServiceVars, inspectionServiceVars, slot_trace>>

\* deactivate() or activate() on a stored inspector.
ChangeInspectorStatus ==
    /\ now < SessionMaxTime
    /\ \E i \in InspectorIds :
          \/ /\ inspectors' = [inspectors EXCEPT ![i] = Inspector_deactivate(@, now + 1)]
             /\ ret' = [NoRet EXCEPT !.op = "deactivate"]
             /\ args' = <<i>>
          \/ /\ inspectors' = [inspectors EXCEPT ![i] = Inspector_activate(@, now + 1)]
             /\ ret' = [NoRet EXCEPT !.op = "activate"]
             /\ args' = <<i>>
    /\ now' = now + 1
    /\ UNCHANGED <<entityVars, toolVars, bookingServiceVars, inspections, slot_trace>>

NextSession ==
    \/ SessionLogin
    \/ ValidateToken
    \/ Logout
    \/ ChangeInspectorStatus

SpecSession == InitAuth /\ [][NextSession]_vars

(***************************************************************************)
(* SpecReport: the public report lookup over stored inspections that are   *)
(* created, scored and completed                                           *)
(***************************************************************************)
\* The stores the report lookup starts from: empty; one draft; one completed
\* inspection; and a completed inspection with a newer draft for the plate.
ReportStores ==
    LET known == [i \in InspectorIds |-> Inspector(i, "active", -4)]
        plate == <<"a", "b", "c", " ", "1", "2", "3">>
        one_draft ==
            InspectionService_create_inspection(known, <<>>, plate, "car", "i1", -3).inspections
        one_scored ==
            InspectionService_update_checkpoint_scores(
                one_draft, 1, [is_list |-> TRUE, items |-> AllAt(8)], -2).inspections
        one_completed ==
            InspectionService_complete_inspection(one_scored, 1, {}, -1).inspections
        newer_draft ==
            InspectionService_create_inspection(
                known, one_completed, plate, "car", "i1", 0).inspections
    IN  { <<>>, one_draft, one_completed, newer_draft }

InitReport ==
    /\ now = 0
    /\ EntityIdle
    /\ ToolIdle
    /\ ret = NoRet
    /\ BookingServiceIdle
    /\ inspectors = [i \in InspectorIds |-> Inspector(i, "active", -4)]
    /\ inspections \in ReportStores
    /\ args = <<>>
    /\ slot_trace = <<>>

GetInspectionReport ==
    /\ \E license_plate \in InspectionPlateInputs :
          LET found == InspectionService_get_latest_inspection_by_license_plate(
                           inspections, upper(strip(license_plate)))
          IN  \E latest \in IF found.value = {} THEN {{}} ELSE {{i} : i \in found.value} :
                  LET r == get_inspection_report(
                               license_plate, [error |-> found.error, value |-> latest])
                  IN  /\ args' = <<license_plate>>
                      /\ ret' = [NoRet EXCEPT !.op = "get_inspection_report",
                                              !.status = r.status,
                                              !.error = r.error,
                                              !.raises = IF r.status = "200" THEN ""
                                                         ELSE "HTTPException",
                                              !.value = r.value]
    /\ UNCHANGED <<now, entityVars, toolVars, bookingServiceVars, inspectionServiceVars, slot_trace>>

NextReport ==
    \/ GetInspectionReport
    \/ CreateInspection
    \/ UpdateInspectionScores
    \/ CompleteStoredInspection

SpecReport == InitReport /\ [][NextReport]_vars

(***************************************************************************)
(* SpecWorkflowRace: update_checkpoint_scores and complete_inspection      *)
(* calls on one stored inspection, interleaved.  A call awaits find_by_id, *)
(* works on the copy it got, and awaits update(); other calls run at the   *)
(* awaits.                                                                 *)
(***************************************************************************)
\* The calls made: which method, with which argument.
WorkflowRaceInputs ==
    { [op |-> "update_checkpoint_scores", input |-> scores] :
          scores \in { [is_list |-> TRUE, items |-> AllAt(8)],
                       [is_list |-> TRUE, items |-> AllAt(3)],
                       [is_list |-> TRUE,
                        items |-> <<CheckpointScore("braking_system", 8),
                                    CheckpointScore("tires", 7)>>] } }
    \cup { [op |-> "complete_inspection", input |-> observations] :
               observations \in FinalObservationInputs }

InitWorkflowRace ==
    /\ now = 0
    /\ EntityIdle
    /\ generator = TimeSlotGenerator(8, 17, 60)
    /\ AuthIdle
    /\ ret = NoRet
    /\ BookingServiceIdle
    /\ inspectors = [i \in InspectorIds |-> Inspector(i, "active", -2)]
    /\ LET draft == Inspection(PlateAbc123, "car", "i1", 1, -2).value[1]
       IN  inspections \in
               { <<draft>>,
                 InspectionService_update_checkpoint_scores(
                     <<draft>>, 1, [is_list |-> TRUE, items |-> AllAt(8)], -1).inspections }
    /\ calls \in [Callers -> {[pc |-> "called", op |-> i.op, input |-> i.input,
                               copy |-> <<>>, error |-> ""] : i \in WorkflowRaceInputs}]
    /\ args = <<>>
    /\ slot_trace = <<>>

\* Caller c runs its call from find_by_id up to the await of update(): the
\* checks and the change are made on the copy find_by_id returned.
WorkflowLoad(c) ==
    /\ calls[c].pc = "called"
    /\ LET r == IF calls[c].op = "update_checkpoint_scores"
                THEN InspectionService_update_checkpoint_scores(
                         inspections, 1, calls[c].input, now + 1)
                ELSE InspectionService_complete_inspection(
                         inspections, 1, calls[c].input, now + 1)
       IN  /\ calls' = [calls EXCEPT
                           ![c].pc = IF r.error = "" THEN "loaded" ELSE "raised",
                           ![c].copy = r.value,
                           ![c].error = r.error]
           /\ args' = <<1, calls[c].input>>
           /\ ret' = [NoRet EXCEPT !.op = "find_by_id", !.error = r.error,
                                   !.raises = r.raises, !.missing = r.missing]
    /\ now' = now + 1
    /\ UNCHANGED <<entityVars, generator, authVars, bookingServiceVars, inspectionServiceVars, slot_trace>>

\* Caller c's update() writes its copy over the stored row and the call
\* returns the copy.
WorkflowWrite(c) ==
    /\ calls[c].pc = "loaded"
    /\ inspections' = InspectionRepository_update(inspections, calls[c].copy[1], now + 1)
    /\ calls' = [calls EXCEPT ![c].pc = "returned"]
    /\ args' = <<1, calls[c].input>>
    /\ ret' = [NoRet EXCEPT !.op = "InspectionService." \o calls[c].op,
                            !.value = calls[c].copy]
    /\ now' = now + 1
    /\ UNCHANGED <<entityVars, generator, authVars, bookingServiceVars, inspectors, slot_trace>>

NextWorkflowRace == \E c \in Callers : WorkflowLoad(c) \/ WorkflowWrite(c)

SpecWorkflowRace == InitWorkflowRace /\ [][NextWorkflowRace]_vars

(***************************************************************************)
(* SpecLoginRace: two login calls interleaved at the awaits around the     *)
(* failure counter                                                         *)
(***************************************************************************)
\* Wrong-password logins made one after the other for inspector i1 before
\* the two calls start.
RaceFailuresBefore == 3

LoginRaceInputs ==
    {[email |-> email, password |-> password] :
        email \in {EmailOf(i) : i \in InspectorIds},
        password \in PasswordInputs}

InitLoginRace ==
    /\ now = RaceFailuresBefore
    /\ EntityIdle
    /\ ret = NoRet
    /\ BookingServiceIdle
    /\ generator = TimeSlotGenerator(8, 17, 60)
    /\ inspectors = [i \in InspectorIds |-> Inspector(i, "active", 0)]
    /\ inspections = <<>>
    /\ login_info =
           [i \in InspectorIds |->
               [email |-> EmailOf(i),
                password_hash |-> {PasswordHasher_create_password_hash(RightPassword, i)},
                last_login |-> {},
                failed_login_attempts |-> IF i = "i1" THEN RaceFailuresBefore ELSE 0,
                locked_until |-> {}]]
    /\ tokens = <<>>
    /\ calls \in [Callers -> {[pc |-> "called", email |-> i.email,
                               password |-> i.password, failed_attempts |-> 0,
                               wrong |-> FALSE, error |-> ""] : i \in LoginRaceInputs}]
    /\ args = <<>>
    /\ slot_trace = <<>>

\* The inspector caller c's login is for; only used where one was found.
LoginRaceInspector(c) ==
    CHOOSE i \in InspectorIds :
        InspectorRepository_find_by_email(login_info, calls[c].email) = {i}

\* Caller c runs login up to the password check, lines 42-93: a call whose
\* password is wrong goes on to _record_failed_login, every other call ends
\* here as login does.
LoginRaceVerify(c) ==
    /\ calls[c].pc = "called"
    /\ LET r == AuthenticationService_login(
                    inspectors, login_info, tokens, calls[c].email, calls[c].password, now + 1)
           wrong == /\ ~r.result.success
                    /\ r.result.failed_attempts > 0
       IN  /\ calls' = [calls EXCEPT
                           ![c].pc = IF wrong THEN "verified" ELSE "returned",
                           ![c].wrong = wrong,
                           ![c].error = IF wrong THEN "" ELSE r.result.error_message]
           /\ login_info' = IF wrong THEN login_info ELSE r.login_info
           /\ tokens' = IF wrong THEN tokens ELSE r.tokens
           /\ args' = <<calls[c].email, calls[c].password>>
           /\ ret' = [NoRet EXCEPT !.op = "login:verify",
                                   !.error = IF wrong THEN "" ELSE r.result.error_message]
    /\ now' = now + 1
    /\ UNCHANGED <<entityVars, generator, bookingServiceVars, inspectionServiceVars, slot_trace>>

\* _record_failed_login reads the counter: line 274.
LoginRaceRead(c) ==
    /\ calls[c].pc = "verified"
    /\ calls' = [calls EXCEPT
                    ![c].pc = "read",
                    ![c].failed_attempts =
                        InspectorRepository_get_failed_attempts(
                            login_info, LoginRaceInspector(c))]
    /\ args' = <<calls[c].email, calls[c].password>>
    /\ ret' = [NoRet EXCEPT !.op = "login:get_failed_attempts"]
    /\ now' = now + 1
    /\ UNCHANGED <<entityVars, generator, authVars, bookingServiceVars, inspectionServiceVars, slot_trace>>

\* _record_failed_login stores the counter it read plus one: lines 275-278.
LoginRaceWrite(c) ==
    /\ calls[c].pc = "read"
    /\ login_info' = InspectorRepository_update_login_info(
                         login_info, LoginRaceInspector(c),
                         calls[c].failed_attempts + 1, {})
    /\ calls' = [calls EXCEPT ![c].pc = "recorded"]
    /\ args' = <<calls[c].email, calls[c].password>>
    /\ ret' = [NoRet EXCEPT !.op = "login:update_login_info"]
    /\ now' = now + 1
    /\ UNCHANGED <<entityVars, generator, tokens, bookingServiceVars, inspectionServiceVars, slot_trace>>

\* login reads the counter again, locks the account when it has reached
\* MAX_FAILED_ATTEMPTS, and returns: lines 97-121.
LoginRaceFinish(c) ==
    /\ calls[c].pc = "recorded"
    /\ LET inspector_id == LoginRaceInspector(c)
           failed_attempts ==
               InspectorRepository_get_failed_attempts(login_info, inspector_id)
           locks == failed_attempts >= MAX_FAILED_ATTEMPTS
           error == IF locks
                    THEN "Account locked due to too many failed login attempts"
                    ELSE "Invalid email or password"
       IN  /\ login_info' =
                  IF locks
                  THEN AuthenticationService_lock_account(login_info, inspector_id, now + 1)
                  ELSE login_info
           /\ calls' = [calls EXCEPT ![c].pc = "returned",
                                     ![c].failed_attempts = failed_attempts,
                                     ![c].error = error]
           /\ args' = <<calls[c].email, calls[c].password>>
           /\ ret' = [NoRet EXCEPT !.op = "login", !.error = error]
    /\ now' = now + 1
    /\ UNCHANGED <<entityVars, generator, tokens, bookingServiceVars, inspectionServiceVars, slot_trace>>

NextLoginRace ==
    \E c \in Callers :
        LoginRaceVerify(c) \/ LoginRaceRead(c) \/ LoginRaceWrite(c) \/ LoginRaceFinish(c)

SpecLoginRace == InitLoginRace /\ [][NextLoginRace]_vars

(***************************************************************************)
(* SpecMemoryRepository: the in-memory booking repository called directly: *)
(* save stores any booking, the two availability queries read them         *)
(***************************************************************************)
\* The bookings handed to save: any slot datetime, any status.
StoredBookingInputs ==
    {<<dt, status>> : dt \in {At0800, At0900, Day40At0900},
                      status \in {"pending", "confirmed", "cancelled"}}

InitMemoryRepository ==
    /\ now = ServiceStart
    /\ EntityIdle
    /\ ToolIdle
    /\ ret = NoRet
    /\ repo_kind = "memory"
    /\ bookings = <<>>
    /\ vehicles = {}
    /\ time_slot_rows = {}
    /\ args = <<>>
    /\ requests = <<>>
    /\ InspectionServiceIdle
    /\ slot_trace = <<>>

\* save(booking) with a new id: lines 50-53.
RepositorySave ==
    /\ Len(bookings) < MaxStoredBookings
    /\ \E input \in StoredBookingInputs :
          LET b == Booking(LicensePlateValidator_normalize(PlateAbc123), input[1], "u1", Len(bookings) + 1, input[2], now)
          IN  /\ bookings' = BookingRepository_save(bookings, b)
              /\ args' = input
              /\ ret' = [NoRet EXCEPT !.op = "InMemoryBookingRepository.save",
                                      !.value = <<b>>]
    /\ UNCHANGED <<now, entityVars, toolVars, repo_kind, vehicles, time_slot_rows, requests, inspectionServiceVars, slot_trace>>

\* find_available_slots(target_date): lines 69-99.
RepositoryFindAvailableSlots ==
    /\ \E target_date \in SlotDateInputs :
          LET r == InMemoryBookingRepository_find_available_slots(
                       bookings, target_date, datetime_date(ServiceStart))
          IN  /\ args' = <<target_date>>
              /\ ret' = [NoRet EXCEPT
                            !.op = "InMemoryBookingRepository.find_available_slots",
                            !.error = r.error,
                            !.raises = IF r.error = "" THEN "" ELSE "ValueError",
                            !.value = r.value]
    /\ UNCHANGED <<now, entityVars, toolVars, bookingServiceVars, inspectionServiceVars, slot_trace>>

\* is_slot_available(appointment_date): lines 101-114.
RepositoryIsSlotAvailable ==
    /\ \E appointment_date \in {At0800, At0830, At0900, Day40At0900} :
          LET r == InMemoryBookingRepository_is_slot_available(
                       bookings, appointment_date, datetime_date(ServiceStart))
          IN  /\ args' = <<appointment_date>>
              /\ ret' = [NoRet EXCEPT
                            !.op = "InMemoryBookingRepository.is_slot_available",
                            !.error = r.error,
                            !.raises = IF r.error = "" THEN "" ELSE "ValueError",
                            !.value = r.value]
    /\ UNCHANGED <<now, entityVars, toolVars, bookingServiceVars, inspectionServiceVars, slot_trace>>

NextMemoryRepository ==
    RepositorySave \/ RepositoryFindAvailableSlots \/ RepositoryIsSlotAvailable

SpecMemoryRepository == InitMemoryRepository /\ [][NextMemoryRepository]_vars

(***************************************************************************)
(* SpecTimeSlot: a TimeSlot and the slots with_booking / without_booking   *)
(* derive from it                                                          *)
(***************************************************************************)
InitTimeSlot ==
    /\ now = 0
    /\ EntityIdle
    /\ ToolIdle
    /\ ret = NoRet
    /\ BookingServiceIdle
    /\ InspectionServiceIdle
    /\ args = <<>>
    /\ slot_trace \in {<<[op |-> "TimeSlot", slot |-> s]>> : s \in TimeSlotInputs}

WithBooking ==
    /\ Len(slot_trace) <= TimeSlotMaxCalls
    /\ LET r == TimeSlot_with_booking(slot_trace[Len(slot_trace)].slot)
       IN  /\ slot_trace' = IF r.error # "" THEN slot_trace
                            ELSE Append(slot_trace,
                                        [op |-> "with_booking", slot |-> r.value[1]])
           /\ ret' = [NoRet EXCEPT !.op = "with_booking", !.error = r.error,
                                   !.value = r.value]
    /\ UNCHANGED <<now, entityVars, toolVars, bookingServiceVars, inspectionServiceVars, args>>

WithoutBooking ==
    /\ Len(slot_trace) <= TimeSlotMaxCalls
    /\ LET r == TimeSlot_without_booking(slot_trace[Len(slot_trace)].slot)
       IN  /\ slot_trace' = IF r.error # "" THEN slot_trace
                            ELSE Append(slot_trace,
                                        [op |-> "without_booking", slot |-> r.value[1]])
           /\ ret' = [NoRet EXCEPT !.op = "without_booking", !.error = r.error,
                                   !.value = r.value]
    /\ UNCHANGED <<now, entityVars, toolVars, bookingServiceVars, inspectionServiceVars, args>>

NextTimeSlot == WithBooking \/ WithoutBooking

SpecTimeSlot == InitTimeSlot /\ [][NextTimeSlot]_vars

(***************************************************************************)
(* SpecGenerator: a TimeSlotGenerator asked for the slots of a date        *)
(***************************************************************************)
InitGenerator ==
    /\ now = 0
    /\ EntityIdle
    /\ ret = NoRet
    /\ BookingServiceIdle
    /\ InspectionServiceIdle
    /\ args = <<>>
    /\ slot_trace = <<>>
    /\ generator \in {g \in GeneratorInputs : g.start_hour < g.end_hour}
    /\ AuthIdle
    /\ calls = <<>>

GenerateSlotsForDate ==
    /\ \E target_date \in GeneratorDateInputs :
          LET r == TimeSlotGenerator_generate_slots_for_date(generator, target_date)
          IN  /\ args' = <<target_date>>
              /\ ret' = [NoRet EXCEPT !.op = "generate_slots_for_date",
                                      !.error = r.error,
                                      !.raises = IF r.error = "" THEN ""
                                                 ELSE "ValueError",
                                      !.value = r.value]
    /\ UNCHANGED <<now, entityVars, toolVars, bookingServiceVars, inspectionServiceVars, slot_trace>>

NextGenerator == GenerateSlotsForDate

SpecGenerator == InitGenerator /\ [][NextGenerator]_vars

(***************************************************************************)
(* Properties                                                              *)
(***************************************************************************)
\* The sum of the scores of a list, taken from the end of the list.
RECURSIVE TotalOf(_)
TotalOf(scores) ==
    IF Len(scores) = 0 THEN 0
    ELSE TotalOf(SubSeq(scores, 1, Len(scores) - 1)) + scores[Len(scores)].score

AnyBelow5(scores) == \E i \in 1..Len(scores) : scores[i].score < 5

\* How many scores of a list are for checkpoint type t.
ScoresFor(scores, t) ==
    Cardinality({i \in 1..Len(scores) : scores[i].checkpoint_type = t})

\* C1: the Booking status changes only along four edges: confirm() succeeds
\* iff the status is PENDING (then CONFIRMED), complete() succeeds iff it is
\* CONFIRMED (then COMPLETED), cancel() succeeds iff it is PENDING or
\* CONFIRMED (then CANCELLED); every other call raises an error and leaves
\* the status as it was.
C1_BookingEdges ==
    [][ /\ ret'.op = "confirm" =>
            IF booking.status = "pending"
            THEN ret'.error = "" /\ booking'.status = "confirmed"
            ELSE ret'.error # "" /\ booking'.status = booking.status
        /\ ret'.op = "complete" =>
            IF booking.status = "confirmed"
            THEN ret'.error = "" /\ booking'.status = "completed"
            ELSE ret'.error # "" /\ booking'.status = booking.status
        /\ ret'.op = "cancel" =>
            IF booking.status \in {"pending", "confirmed"}
            THEN ret'.error = "" /\ booking'.status = "cancelled"
            ELSE ret'.error # "" /\ booking'.status = booking.status
      ]_vars

\* confirm() was called on a CONFIRMED booking and failed.
C1_Witness ==
    ret.op = "confirm" /\ ret.error # "" /\ booking.status = "confirmed"

\* C2: COMPLETED and CANCELLED are terminal for a Booking: from either, no
\* confirm(), cancel() or complete() call changes the status.
C2_BookingTerminal ==
    [][booking.status \in {"completed", "cancelled"} =>
            booking'.status = booking.status]_vars

\* cancel() was called on a COMPLETED booking.
C2_Witness ==
    ret.op = "cancel" /\ ret.error # "" /\ booking.status = "completed"

\* C3: COMPLETED is terminal and frozen for an Inspection: each later call of
\* update_checkpoint_scores, add_checkpoint_score, update_observations or
\* complete_inspection fails, and status, scores and observations stay as
\* they were at completion.
C3_InspectionFrozen ==
    [][inspection.status = "completed" =>
        /\ ret'.op \in {"update_checkpoint_scores", "add_checkpoint_score",
                        "update_observations", "complete_inspection"}
              => ret'.error # ""
        /\ inspection'.status = "completed"
        /\ inspection'.checkpoint_scores = inspection.checkpoint_scores
        /\ inspection'.observations = inspection.observations
      ]_vars

\* update_observations was called on a COMPLETED inspection.
C3_Witness ==
    /\ inspection.status = "completed"
    /\ ret.op = "update_observations"
    /\ ret.error # ""

\* C4: complete_inspection() on a draft succeeds if and only if every one of
\* the 8 required checkpoint types has exactly one score attached.
C4_CompleteIffExactlyOneEach ==
    [][(ret'.op = "complete_inspection" /\ inspection.status = "draft") =>
        (ret'.error = "" <=>
            \A t \in CheckpointType : ScoresFor(inspection.checkpoint_scores, t) = 1)
      ]_vars

\* C5: in every reachable state of an Inspection no two stored scores share
\* a checkpoint_type, and every stored score's checkpoint_type is one of the
\* 8 required types.
C5_NoDuplicateScores ==
    /\ \A t \in CheckpointType : ScoresFor(inspection.checkpoint_scores, t) <= 1
    /\ \A i \in 1..Len(inspection.checkpoint_scores) :
            inspection.checkpoint_scores[i].checkpoint_type \in CheckpointType

\* C6: when update_checkpoint_scores(scores) fails, the stored scores and
\* updated_at are the same as before the call.
C6_FailedUpdateChangesNothing ==
    [][(ret'.op = "update_checkpoint_scores" /\ ret'.error # "") =>
        /\ inspection'.checkpoint_scores = inspection.checkpoint_scores
        /\ inspection'.updated_at = inspection.updated_at
      ]_vars

\* What C7 says calculate_safety returns for a score list.
C7_Expected(r, scores) ==
    /\ r.total_score = TotalOf(scores)
    /\ r.max_score = 80
    /\ r.is_safe = (TotalOf(scores) >= 64 /\ ~AnyBelow5(scores))
    /\ r.requires_reinspection = (TotalOf(scores) < 32 \/ AnyBelow5(scores))

\* C7 as stated: for every non-empty score list and both vehicle types,
\* calculate_safety returns total_score = the sum of the scores, max_score =
\* 80, is_safe = (total >= 64 and no score < 5), requires_reinspection =
\* (total < 32 or some score < 5).
C7_Original ==
    (ret.op = "calculate_safety" /\ policy_scores # <<>>) =>
        /\ ret.error = ""
        /\ C7_Expected(ret.value[1], policy_scores)

\* C7 as amended: for every non-empty score list whose sum is at most 80 and
\* both vehicle types, calculate_safety returns total_score = the sum,
\* max_score = 80, is_safe = (total >= 64 and no score < 5) and
\* requires_reinspection = (total < 32 or some score < 5); for a list whose
\* sum exceeds 80 it raises SafetyResult's bound error and returns nothing.
C7_SafetyWithinBound ==
    ret.op = "calculate_safety" =>
        /\ (policy_scores # <<>> /\ TotalOf(policy_scores) <= 80) =>
                /\ ret.error = ""
                /\ C7_Expected(ret.value[1], policy_scores)
        /\ TotalOf(policy_scores) > 80 =>
                /\ ret.error = "Total score cannot exceed maximum score"
                /\ ret.value = <<>>

\* A motorcycle scored 64 in total without a critical score was found safe.
C7_Witness ==
    /\ ret.op = "calculate_safety"
    /\ policy_vehicle = "motorcycle"
    /\ ret.error = ""
    /\ ret.value[1].total_score = 64
    /\ ret.value[1].is_safe
    /\ ~ret.value[1].requires_reinspection

\* C8: the verdict is three-way: is_safe and requires_reinspection are never
\* both true; both are false exactly when no score is below 5 and the total
\* is between 32 and 63; status is SAFE when is_safe, REQUIRES_REINSPECTION
\* when requires_reinspection, CONDITIONAL otherwise.
C8_ThreeWayVerdict ==
    (ret.op = "calculate_safety" /\ ret.error = "") =>
        LET r == ret.value[1]
        IN  /\ ~(r.is_safe /\ r.requires_reinspection)
            /\ (~r.is_safe /\ ~r.requires_reinspection) <=>
                    /\ ~AnyBelow5(policy_scores)
                    /\ TotalOf(policy_scores) \in 32..63
            /\ r.is_safe => ret.status = "SAFE"
            /\ r.requires_reinspection => ret.status = "REQUIRES_REINSPECTION"
            /\ (~r.is_safe /\ ~r.requires_reinspection) => ret.status = "CONDITIONAL"

\* A total of 63 without a critical score gave the CONDITIONAL verdict.
C8_Witness ==
    /\ ret.op = "calculate_safety"
    /\ ret.error = ""
    /\ ret.value[1].total_score = 63
    /\ ret.status = "CONDITIONAL"

\* C9: calculating safety with zero scores fails: calculate_safety(scores)
\* with an empty list, and calculate_safety_result() on an inspection with
\* no scores, raise an error and return no SafetyResult.
C9_EmptyScoresFail ==
    /\ (ret.op = "calculate_safety" /\ policy_scores = <<>>) =>
            ret.error # "" /\ ret.value = <<>>
    /\ (ret.op = "calculate_safety_result" /\ inspection.checkpoint_scores = <<>>) =>
            ret.error # "" /\ ret.value = <<>>

\* C10: for every reachable Inspection state holding at least one score,
\* calculate_safety_result() returns a SafetyResult with
\* 0 <= total_score <= max_score = 80.
C10_SafetyResultWithinBound ==
    (ret.op = "calculate_safety_result" /\ inspection.checkpoint_scores # <<>>) =>
        /\ ret.error = ""
        /\ ret.value[1].total_score >= 0
        /\ ret.value[1].total_score <= ret.value[1].max_score
        /\ ret.value[1].max_score = 80

\* C11: calculate_safety_result() is a pure read: the call changes no field
\* of the inspection, and two calls in a row on the same inspection return
\* the same SafetyResult (or raise the same error).
C11_CalculateIsPureRead ==
    [][ret'.op = "calculate_safety_result" =>
        /\ inspection' = inspection
        /\ ret.op = "calculate_safety_result" =>
                ret'.value = ret.value /\ ret'.error = ret.error
      ]_vars

\* calculate_safety_result() returned a result on a completed inspection
\* right after the inspection was completed.
C11_Witness ==
    /\ inspection.status = "completed"
    /\ ret.op = "calculate_safety_result"
    /\ ret.error = ""
    /\ ret.value[1].total_score = 64
    /\ now = inspection.updated_at + 2

\* The stored bookings that hold datetime t: PENDING or CONFIRMED ones.
HoldersOf(t) ==
    {i \in 1..Len(bookings) :
        bookings[i].appointment_date = t /\ bookings[i].status \in {"pending", "confirmed"}}

\* The request inputs whose license plate is well formed and whose user exists.
WellFormedRequests ==
    {input \in RequestInputs : input[1] \in {PlateAbc123, PlateXy9} /\ input[3] \in {"u1", "u2"}}

\* C12 as stated: with calls run one after the other, a request_appointment
\* for a datetime that a PENDING or CONFIRMED booking holds fails with the
\* 'not available' error whatever its license plate and user are, and no
\* datetime is held by two PENDING/CONFIRMED bookings.
C12_Original ==
    /\ [](\A i \in 1..Len(bookings) : Cardinality(HoldersOf(bookings[i].appointment_date)) <= 1)
    /\ [][(ret'.op = "request_appointment" /\ HoldersOf(args'[2]) # {}) =>
              ret'.error = "Selected time slot is not available"]_vars

\* C12: with calls run one after the other, a request_appointment for a
\* datetime that a PENDING or CONFIRMED booking holds fails and stores
\* nothing; its error is 'not available' when its license plate is well
\* formed and its user exists (a malformed plate or an unknown user is
\* reported first), and no datetime is ever held by two PENDING/CONFIRMED
\* bookings.
C12_NoSequentialDoubleBooking ==
    /\ [](\A t \in {At0800, At0830, At0900, Day40At0900} : Cardinality(HoldersOf(t)) <= 1)
    /\ [][(ret'.op = "request_appointment" /\ HoldersOf(args'[2]) # {}) =>
              /\ ret'.error # ""
              /\ bookings' = bookings
              /\ vehicles' = vehicles
              /\ args' \in WellFormedRequests =>
                     ret'.error = "Selected time slot is not available"]_vars

C12_Witness ==
    /\ ret.op = "request_appointment"
    /\ ret.error = "Selected time slot is not available"
    /\ args = <<PlateXy9, At0900, "u2">>
    /\ Len(bookings) = 1
    /\ bookings[1].status = "confirmed"
    /\ bookings[1].user_id = "u1"

\* C13: when two request_appointment calls are interleaved, a call that has
\* passed the availability check always goes on to persist its PENDING
\* booking for the datetime it asked for, whatever the other call has stored
\* in between; so both calls can pass the check before either saves, and
\* both bookings are then stored as PENDING for the same slot.
C13_CheckedRequestAlwaysStores ==
    [][\A c \in Callers :
          (requests[c].pc = "checked" /\ requests'[c].pc # "checked") =>
              /\ requests'[c].pc = "returned"
              /\ Len(bookings') = Len(bookings) + 1
              /\ bookings'[Len(bookings')].status = "pending"
              /\ bookings'[Len(bookings')].appointment_date = requests[c].input[2]
              /\ \A i \in 1..Len(bookings) : bookings'[i] = bookings[i]
      ]_vars

C13_Witness ==
    /\ requests # <<>>
    /\ \A c \in Callers : requests[c].pc = "returned"
    /\ Len(bookings) = 2
    /\ bookings[1].appointment_date = At0900
    /\ bookings[2].appointment_date = At0900
    /\ bookings[1].status = "pending"
    /\ bookings[2].status = "pending"
    /\ bookings[1].user_id # bookings[2].user_id

\* C14: get_available_slots(date) returns, for each slot of that date,
\* current_bookings equal to the number of stored PENDING or CONFIRMED
\* bookings at that date and start time, and is_available equal to
\* (that number < max_bookings).
C14_SlotsReflectBookings ==
    (ret.op = "get_available_slots" /\ ret.error = "") =>
        \A k \in 1..Len(ret.value) :
            LET slot == ret.value[k]
                held == Cardinality(
                            {i \in 1..Len(bookings) :
                                /\ bookings[i].appointment_date
                                       = args[1] * 1440 + slot.start_time
                                /\ bookings[i].status \in {"pending", "confirmed"}})
            IN  /\ slot.current_bookings = held
                /\ slot.is_available = (held < slot.max_bookings)

\* C15: confirm_booking and cancel_booking called by a user who is not the
\* booking's owner fail with the ownership error whatever the booking's
\* status is, and leave the stored bookings as they were.
C15_OnlyOwnerConfirmsOrCancels ==
    [][(/\ ret'.op \in {"confirm_booking", "cancel_booking"}
        /\ args'[1] \in 1..Len(bookings)
        /\ bookings[args'[1]].user_id # args'[2]) =>
           /\ ret'.error = (IF ret'.op = "confirm_booking"
                            THEN "You can only confirm your own bookings"
                            ELSE "You can only cancel your own bookings")
           /\ bookings' = bookings
      ]_vars

C15_Witness ==
    /\ ret.op = "confirm_booking"
    /\ ret.error = "You can only confirm your own bookings"
    /\ args = <<1, "u2">>
    /\ Len(bookings) = 1
    /\ bookings[1].user_id = "u1"
    /\ bookings[1].status = "cancelled"

\* C16: request_appointment with an appointment_date that is not strictly
\* after the clock reading of the call fails and stores neither a booking
\* nor a vehicle; every stored booking has appointment_date later than its
\* creation time.
C16_NonFutureDateRejected ==
    /\ [](\A i \in 1..Len(bookings) : bookings[i].appointment_date > bookings[i].created_at)
    /\ [][(ret'.op = "request_appointment" /\ args'[2] <= now') =>
              /\ ret'.error # ""
              /\ bookings' = bookings
              /\ vehicles' = vehicles]_vars

C16_Witness ==
    /\ ret.op = "request_appointment"
    /\ ret.error = "Appointment must be scheduled for a future date"
    /\ args[2] = At0800
    /\ now = At0800
    /\ bookings = <<>>
    /\ vehicles = {}

\* C17: every stored booking sits on the start of a generated slot (the
\* hourly starts 08:00..16:00), and a request_appointment for a datetime
\* that is not such a start is rejected as 'not available'.
C17_OnlySlotStartsBooked ==
    /\ \A i \in 1..Len(bookings) :
           \E hour \in 8..16 : bookings[i].appointment_date % 1440 = hour * 60
    /\ (/\ ret.op = "request_appointment"
        /\ args[1] \in {PlateAbc123, PlateXy9}
        /\ args[3] \in {"u1", "u2"}
        /\ \A hour \in 8..16 : args[2] % 1440 # hour * 60) =>
            ret.error = "Selected time slot is not available"

\* C18: create_inspection stores a new inspection, a DRAFT with no scores,
\* only if the inspector is stored and ACTIVE when the call is made; a
\* failing call stores nothing; a blank plate fails with the validation
\* error (ValueError), and a call with a plate and a vehicle type that pass
\* validation fails with the authorization error (RuntimeError) when the
\* inspector is missing or not ACTIVE.
C18_CreateNeedsActiveInspector ==
    [][ret'.op = "create_inspection" =>
          LET plate == args'[1]
              blank == \A k \in 1..Len(plate) : plate[k] \in {" ", "\t", "\n"}
              authorized == /\ args'[3] \in {"i1", "i2"}
                            /\ inspectors[args'[3]].status = "active"
          IN  /\ ret'.error = "" =>
                    /\ authorized
                    /\ Len(inspections') = Len(inspections) + 1
                    /\ \A k \in 1..Len(inspections) : inspections'[k] = inspections[k]
                    /\ inspections'[Len(inspections')].status = "draft"
                    /\ inspections'[Len(inspections')].checkpoint_scores = <<>>
                    /\ inspections'[Len(inspections')].inspector_id = args'[3]
              /\ ret'.error # "" => inspections' = inspections
              /\ blank => ret'.raises = "ValueError"
              /\ (~blank /\ args'[2] \in {"car", "motorcycle"} /\ ~authorized) =>
                    ret'.raises = "RuntimeError"
      ]_vars

C18_Witness ==
    /\ ret.op = "create_inspection"
    /\ ret.raises = "RuntimeError"
    /\ args = <<<<"a", "b", "c", " ", "1", "2", "3">>, "car", "i1">>
    /\ inspectors["i1"].status = "suspended"
    /\ Len(inspections) = 1
    /\ inspections[1].inspector_id = "i1"

\* C19: the license plate of every inspection, built by create_inspection or
\* by constructing the aggregate directly, is trimmed, uppercased and free
\* of spaces and hyphens; plate "abc 123" becomes "ABC123".
C19_PlatesNormalized ==
    (ret.op \in {"create_inspection", "Inspection"} /\ ret.error = "") =>
        LET plate == ret.value[1].license_plate
        IN  /\ \A k \in 1..Len(plate) :
                  /\ plate[k] \notin {" ", "-", "\t", "\n"}
                  /\ plate[k] \notin {"a", "b", "c"}
            /\ args[1] = <<"a", "b", "c", " ", "1", "2", "3">> =>
                  plate = <<"A", "B", "C", "1", "2", "3">>

\* C20 as stated: with_booking() followed by without_booking() yields a slot
\* whose current_bookings and is_available both equal those of the slot
\* with_booking() was called on.
C20_Original ==
    \A k \in 1..(Len(slot_trace) - 2) :
        (slot_trace[k + 1].op = "with_booking" /\ slot_trace[k + 2].op = "without_booking") =>
            /\ slot_trace[k + 2].slot.current_bookings = slot_trace[k].slot.current_bookings
            /\ slot_trace[k + 2].slot.is_available = slot_trace[k].slot.is_available

\* C20: with_booking() followed by without_booking() yields a slot with the
\* original current_bookings and max_bookings and with is_available True; so
\* is_available is restored when the original slot was marked available.
C20_RoundTripRestoresCount ==
    \A k \in 1..(Len(slot_trace) - 2) :
        (slot_trace[k + 1].op = "with_booking" /\ slot_trace[k + 2].op = "without_booking") =>
            /\ slot_trace[k + 2].slot.current_bookings = slot_trace[k].slot.current_bookings
            /\ slot_trace[k + 2].slot.max_bookings = slot_trace[k].slot.max_bookings
            /\ slot_trace[k + 2].slot.is_available
            /\ slot_trace[k].slot.is_available =>
                   slot_trace[k + 2].slot.is_available = slot_trace[k].slot.is_available

C20_Witness ==
    /\ Len(slot_trace) = 3
    /\ slot_trace[1].slot.max_bookings = 2
    /\ slot_trace[1].slot.current_bookings = 1
    /\ ~slot_trace[1].slot.is_available
    /\ slot_trace[2].op = "with_booking"
    /\ slot_trace[3].op = "without_booking"
    /\ ret.op = "without_booking"

\* C21: every TimeSlot, constructed or derived by any chain of
\* with_booking() / without_booking(), has 0 <= current_bookings <=
\* max_bookings and max_bookings >= 1; with_booking() fails exactly when
\* current_bookings = max_bookings, without_booking() fails exactly when
\* current_bookings = 0, and a slot produced by either has
\* is_available = (current_bookings < max_bookings).
C21_TimeSlotInvariants ==
    /\ [](\A k \in 1..Len(slot_trace) :
             LET s == slot_trace[k].slot
             IN  /\ 0 <= s.current_bookings
                 /\ s.current_bookings <= s.max_bookings
                 /\ s.max_bookings >= 1
                 /\ s.start_time < s.end_time
                 /\ k >= 2 => (s.is_available <=> s.current_bookings < s.max_bookings))
    /\ [][LET s == slot_trace[Len(slot_trace)].slot
          IN  /\ ret'.op = "with_booking" =>
                    ((ret'.error # "") <=> (s.current_bookings = s.max_bookings))
              /\ ret'.op = "without_booking" =>
                    ((ret'.error # "") <=> (s.current_bookings = 0))
              /\ ret'.error # "" => slot_trace' = slot_trace
              /\ ret'.error = "" => Len(slot_trace') = Len(slot_trace) + 1
         ]_vars

C21_Witness ==
    /\ Len(slot_trace) = 3
    /\ slot_trace[2].op = "with_booking"
    /\ slot_trace[3].op = "with_booking"
    /\ slot_trace[3].slot.current_bookings = 2
    /\ slot_trace[3].slot.max_bookings = 2
    /\ ~slot_trace[3].slot.is_available
    /\ ret.op = "with_booking"
    /\ ret.error = "Cannot book a fully booked time slot"

\* C22: for every date, the generator with start_hour 8, end_hour 17 and
\* 60-minute slots returns exactly 9 slots: the first starts at 08:00, the
\* last ends at 17:00, each starts where the previous one ends, and every
\* slot is available with current_bookings 0 and max_bookings 1.
C22_DefaultGeneratorNineSlots ==
    (/\ ret.op = "generate_slots_for_date"
     /\ generator = [start_hour |-> 8, end_hour |-> 17, slot_duration_minutes |-> 60]) =>
        /\ ret.error = ""
        /\ Len(ret.value) = 9
        /\ ret.value[1].start_time = 8 * 60
        /\ ret.value[9].end_time = 17 * 60
        /\ \A k \in 1..8 : ret.value[k + 1].start_time = ret.value[k].end_time
        /\ \A k \in 1..9 :
               /\ ret.value[k].is_available
               /\ ret.value[k].current_bookings = 0
               /\ ret.value[k].max_bookings = 1
               /\ ret.value[k].end_time = ret.value[k].start_time + 60
               /\ ret.value[k].date = args[1] * 1440 + ret.value[k].start_time

C22_Witness ==
    /\ ret.op = "generate_slots_for_date"
    /\ generator.start_hour = 8
    /\ generator.end_hour = 17
    /\ generator.slot_duration_minutes = 60
    /\ args = <<2>>
    /\ Len(ret.value) = 9

\* C23: for every configuration with 0 <= start_hour < end_hour <= 23 and
\* slot_duration_minutes >= 1, generate_slots_for_date returns a finite
\* sequence of slots in fixed-size increments from start_hour, each with
\* start < end and an end that does not exceed end_hour.
C23_GeneratorAlwaysReturns ==
    ret.op = "generate_slots_for_date" =>
        /\ ret.error = ""
        /\ \A k \in 1..Len(ret.value) :
               /\ ret.value[k].start_time < ret.value[k].end_time
               /\ ret.value[k].end_time <= generator.end_hour * 60
               /\ ret.value[k].start_time
                      = generator.start_hour * 60 + (k - 1) * generator.slot_duration_minutes
               /\ ret.value[k].end_time
                      = ret.value[k].start_time + generator.slot_duration_minutes

\* The scores of a list that are not for checkpoint type t, in order.
OthersThan(scores, t) == SelectSeq(scores, LAMBDA s : s.checkpoint_type # t)

\* C24: a successful update_checkpoint_scores(scores) on a DRAFT inspection
\* leaves exactly the supplied scores stored, whatever was stored before,
\* and changes neither status nor observations.
C24_UpdateReplacesAllScores ==
    [][(/\ ret'.op = "update_checkpoint_scores"
        /\ ret'.error = ""
        /\ inspection.status = "draft") =>
           /\ inspection'.checkpoint_scores = args'[1].items
           /\ inspection'.status = inspection.status
           /\ inspection'.observations = inspection.observations
      ]_vars

C24_Witness ==
    /\ ret.op = "update_checkpoint_scores"
    /\ ret.error = ""
    /\ now = 3
    /\ inspection.status = "draft"
    /\ inspection.observations = <<"o", "k">>
    /\ inspection.checkpoint_scores
           = <<CheckpointScore("braking_system", 8), CheckpointScore("tires", 7)>>

\* C25: add_checkpoint_score(s) on a DRAFT inspection is an upsert: after it
\* exactly one stored score has s's checkpoint_type and it is s, the scores
\* of the other checkpoint types are as before, and at most 8 scores are
\* stored.
C25_AddIsUpsert ==
    [][(/\ ret'.op = "add_checkpoint_score"
        /\ ret'.error = ""
        /\ inspection.status = "draft") =>
           LET s == args'[1]
               after == inspection'.checkpoint_scores
           IN  /\ Cardinality({i \in 1..Len(after) :
                                  after[i].checkpoint_type = s.checkpoint_type}) = 1
               /\ \E i \in 1..Len(after) : after[i] = s
               /\ OthersThan(after, s.checkpoint_type)
                      = OthersThan(inspection.checkpoint_scores, s.checkpoint_type)
               /\ Len(after) <= 8
      ]_vars


\* The required checkpoint types an inspection has no score for.
LackingOf(insp) ==
    SeqToSet(Car_get_required_checkpoints)
        \ {insp.checkpoint_scores[i].checkpoint_type : i \in 1..Len(insp.checkpoint_scores)}

\* C26: InspectionService.complete_inspection on a stored inspection that
\* lacks a score for some required checkpoint fails naming exactly the
\* missing checkpoints, and the stored inspection stays as it was: in draft,
\* with the same observations and scores.
C26_IncompleteCompletionLeavesStore ==
    [][ ( /\ ret'.op = "InspectionService.complete_inspection"
          /\ args'[1] \in DOMAIN inspections
          /\ LackingOf(inspections[args'[1]]) # {} )
        => ( /\ ret'.raises = "ValueError"
             /\ ret'.error = "Missing required checkpoint scores"
             /\ ret'.missing = LackingOf(inspections[args'[1]])
             /\ ret'.value = <<>>
             /\ inspections' = inspections
             /\ inspections'[args'[1]].status = "draft" ) ]_vars

\* A completion with observations was refused on a draft holding two scores.
C26_Witness ==
    /\ ret.op = "InspectionService.complete_inspection"
    /\ ret.error = "Missing required checkpoint scores"
    /\ Cardinality(ret.missing) = 6
    /\ args[2] # {}
    /\ Len(inspections[1].checkpoint_scores) = 2
    /\ inspections[1].observations = <<>>
    /\ inspections[1].status = "draft"


\* C27: InspectionService.calculate_safety_result(scores, vehicle_type)
\* returns, for every score list and both vehicle types, what that vehicle
\* type's calculate_safety(scores) returns.
C27_PreviewEqualsVehiclePolicy ==
    ( /\ ret.op = "InspectionService.calculate_safety_result"
      /\ args[2] \in VehicleType )
    => LET expected == IF args[2] = "car" THEN Car_calculate_safety(args[1])
                       ELSE Motorcycle_calculate_safety(args[1])
       IN  /\ (ret.error = "") = (expected.error = "")
           /\ ret.value = expected.value


\* C28: whatever activate(), deactivate() and suspend() calls were made on
\* the inspectors, can_perform_inspections() is true exactly when the status
\* is ACTIVE; and each of the three calls sets the status of its inspector
\* to ACTIVE, INACTIVE and SUSPENDED respectively whatever it was before,
\* leaving the other inspectors alone.
C28_InspectorStatusCalls ==
    /\ [](\A i \in InspectorIds :
              Inspector_can_perform_inspections(inspectors[i])
                  <=> inspectors[i].status = "active")
    /\ [][ret'.op \in {"activate", "deactivate", "suspend"} =>
              /\ inspectors'[args'[1]].status =
                     (CASE ret'.op = "activate" -> "active"
                        [] ret'.op = "deactivate" -> "inactive"
                        [] ret'.op = "suspend" -> "suspended")
              /\ \A i \in InspectorIds \ {args'[1]} : inspectors'[i] = inspectors[i]
              /\ Inspector_can_perform_inspections(inspectors'[args'[1]])
                     <=> ret'.op = "activate"
       ]_vars

\* The third status call made on inspector i2 suspended them after an
\* earlier call had already changed their status.
C28_Witness ==
    /\ ret.op = "suspend"
    /\ args = <<"i2">>
    /\ now = 3
    /\ inspectors["i2"].status = "suspended"
    /\ ~Inspector_can_perform_inspections(inspectors["i2"])
    /\ Inspector_can_perform_inspections(inspectors["i1"])
    /\ inspectors["i1"].updated_at = 2


\* The stored inspector a login is for, if any.
AccountOf(email) == {i \in InspectorIds : EmailOf(i) = lower(strip(email))}

\* C29: a wrong-password login for an unlocked ACTIVE account that has k - 1
\* recorded failures -- as it has after k - 1 consecutive wrong-password
\* logins from zero -- fails reporting failed_attempts = k and stores k
\* without locking when k is 1..4; when k is 5 (MAX_FAILED_ATTEMPTS) it
\* returns the account-locked result and stores locked_until one hour after
\* the call's clock reading.
C29_FifthFailureLocks ==
    [][ \A i \in AccountOf(args'[1]) :
          ( /\ ret'.op = "login"
            /\ args'[2] # RightPassword
            /\ inspectors[i].status = "active"
            /\ ~(\E t \in login_info[i].locked_until : t > now')
            /\ login_info[i].failed_login_attempts + 1 \in 1..MAX_FAILED_ATTEMPTS )
          => LET k == login_info[i].failed_login_attempts + 1
                 result == ret'.value[1]
             IN  /\ ~result.success
                 /\ result.token = {}
                 /\ result.failed_attempts = k
                 /\ login_info'[i].failed_login_attempts = k
                 /\ tokens' = tokens
                 /\ k < MAX_FAILED_ATTEMPTS =>
                       /\ result.error_message = "Invalid email or password"
                       /\ result.locked_until = {}
                       /\ login_info'[i].locked_until = {}
                 /\ k = MAX_FAILED_ATTEMPTS =>
                       /\ result.error_message =
                              "Account locked due to too many failed login attempts"
                       /\ result.locked_until = {now' + 60}
                       /\ login_info'[i].locked_until = {now' + 60}
      ]_vars

\* Five logins were made, one a minute, and the fifth locked the account of
\* inspector i1 until an hour later.
C29_Witness ==
    /\ now = 5
    /\ ret.op = "login"
    /\ ret.error = "Account locked due to too many failed login attempts"
    /\ ret.value[1].failed_attempts = 5
    /\ ret.value[1].locked_until = {65}
    /\ login_info["i1"].failed_login_attempts = 5
    /\ login_info["i1"].locked_until = {65}
    /\ login_info["i2"].failed_login_attempts = 0
    /\ tokens = <<>>

\* C30: while the locked_until of an account lies in the future, every login
\* for it, with the right password too, fails with the temporarily-locked
\* error; no token is issued or stored, and the failed-attempt counter and
\* locked_until stay as they were.
C30_LockedAccountRefused ==
    [][ \A i \in AccountOf(args'[1]) :
          ( /\ ret'.op = "login"
            /\ \E t \in login_info[i].locked_until : t > now' )
          => /\ ~ret'.value[1].success
             /\ ret'.value[1].error_message =
                    "Account is temporarily locked due to too many failed login attempts"
             /\ ret'.value[1].locked_until = login_info[i].locked_until
             /\ ret'.value[1].token = {}
             /\ tokens' = tokens
             /\ login_info' = login_info
      ]_vars

\* A login with the right password, written in capitals with blanks around
\* the address, was refused while the account was locked.
C30_Witness ==
    /\ ret.op = "login"
    /\ ret.error = "Account is temporarily locked due to too many failed login attempts"
    /\ args = << <<" ", "A", "@", "x", " ">>, RightPassword >>
    /\ login_info["i1"].failed_login_attempts = 5
    /\ \E t \in login_info["i1"].locked_until : t > now
    /\ tokens = <<>>


\* C31: a successful login -- the right password for an ACTIVE account that
\* is not locked -- sets the stored failed-attempt counter to 0 whatever it
\* was, stores one more token, for that inspector and with a token string no
\* stored token has, and returns that token; and a wrong-password login for
\* the account that comes right after a successful one reports
\* failed_attempts = 1.
C31_SuccessResetsCounter ==
    [][ \A i \in AccountOf(args'[1]) :
          /\ ( /\ ret'.op = "login"
               /\ args'[2] = RightPassword
               /\ inspectors[i].status = "active"
               /\ ~(\E t \in login_info[i].locked_until : t > now') )
             => /\ ret'.value[1].success
                /\ ret'.value[1].inspector_id = {i}
                /\ login_info'[i].failed_login_attempts = 0
                /\ Len(tokens') = Len(tokens) + 1
                /\ \A k \in 1..Len(tokens) : /\ tokens'[k] = tokens[k]
                                             /\ tokens[k].token # tokens'[Len(tokens')].token
                /\ tokens'[Len(tokens')].inspector_id = i
                /\ ret'.value[1].token = {tokens'[Len(tokens')]}
          /\ ( /\ ret.op = "login"
               /\ ret.value[1].success
               /\ ret.value[1].inspector_id = {i}
               /\ ret'.op = "login"
               /\ args'[2] # RightPassword )
             => /\ ~ret'.value[1].success
                /\ ret'.value[1].failed_attempts = 1
                /\ login_info'[i].failed_login_attempts = 1
      ]_vars

\* Inspector i1 failed twice, logged in at minute 3, which stored a token,
\* and the wrong password at minute 4 was reported as the first failure.
C31_Witness ==
    /\ now = 4
    /\ ret.op = "login"
    /\ ~ret.value[1].success
    /\ ret.value[1].failed_attempts = 1
    /\ login_info["i1"].failed_login_attempts = 1
    /\ login_info["i1"].last_login = {3}
    /\ Len(tokens) = 1
    /\ tokens[1].inspector_id = "i1"
    /\ tokens[1].created_at = 3
    /\ inspectors["i2"].status = "suspended"


\* The positions at which a token string is stored.
StoredAt(token) == {k \in 1..Len(tokens) : tokens[k].token = token}

\* C32: validate_token(t) returns an inspector -- the one the token is for --
\* exactly when t is stored, is not expired at the call's clock reading, and
\* its inspector is stored and ACTIVE, and it changes no stored token;
\* logout(t) of a stored token returns True and removes that token only,
\* logout of a token that is not stored (a second logout, an unknown token)
\* returns False and changes no stored token; and once logout(t) has
\* returned True, validate_token(t) returns nothing in every later state.
C32_TokenValidationAndLogout ==
    /\ [][ ret'.op = "validate_token" =>
              /\ (ret'.value # <<>>) <=>
                     \E k \in StoredAt(args'[1]) :
                         /\ now' <= tokens[k].expires_at
                         /\ tokens[k].inspector_id \in DOMAIN inspectors
                         /\ inspectors[tokens[k].inspector_id].status = "active"
              /\ ret'.value # <<>> =>
                     \E k \in StoredAt(args'[1]) :
                         ret'.value[1] = inspectors[tokens[k].inspector_id]
              /\ tokens' = tokens
       ]_vars
    /\ [][ ret'.op = "logout" =>
              /\ ret'.value = <<StoredAt(args'[1]) # {}>>
              /\ tokens' = SelectSeq(tokens, LAMBDA t : t.token # args'[1])
              /\ StoredAt(args'[1]) = {} => tokens' = tokens
       ]_vars
    /\ \A t \in TokenInputs :
           []( (ret.op = "logout" /\ args = <<t>> /\ ret.value = <<TRUE>>)
               => [](ret.op = "validate_token" /\ args = <<t>> => ret.value = <<>>) )

\* Inspector i1 logged in at minute 1, logged out at minute 2, and the token
\* was refused at minute 3 although i1 is ACTIVE and the token has not
\* expired.
C32_Witness ==
    /\ now = 3
    /\ ret.op = "validate_token"
    /\ args = <<1>>
    /\ ret.value = <<>>
    /\ tokens = <<>>
    /\ login_info["i1"].last_login = {1}
    /\ inspectors["i1"].status = "active"
    /\ inspectors["i1"].updated_at = 0


\* The stored COMPLETED inspections of the plate a lookup asks for.
CompletedFor(license_plate) ==
    {k \in 1..Len(inspections) :
        /\ inspections[k].status = "completed"
        /\ inspections[k].license_plate = remove(remove(upper(strip(license_plate)), " "), "-")}

\* C33: whenever a COMPLETED inspection is stored for the plate, the public
\* report lookup returns the most recent completed inspection of the plate,
\* also when a newer DRAFT is stored for it; it answers 'not found' only
\* when the plate has no completed inspection.
C33_ReportReturnsLatestCompleted ==
    ret.op = "get_inspection_report" =>
        /\ CompletedFor(args[1]) # {} =>
              /\ ret.status = "200"
              /\ \E k \in CompletedFor(args[1]) :
                    /\ ret.value = <<inspections[k]>>
                    /\ \A other \in CompletedFor(args[1]) :
                          inspections[other].created_at <= inspections[k].created_at
        /\ ret.status = "404" => CompletedFor(args[1]) = {}


C35_CompletedHasEightScores ==
    inspection.status = "completed" =>
        /\ Len(inspection.checkpoint_scores) = 8
        /\ \A t \in CheckpointType :
              Cardinality({i \in 1..Len(inspection.checkpoint_scores) :
                              inspection.checkpoint_scores[i].checkpoint_type = t}) = 1


\* The stored bookings at datetime t that were cancelled.
CancelledAt(t) ==
    {i \in 1..Len(bookings) :
        bookings[i].appointment_date = t /\ bookings[i].status = "cancelled"}

C37_AvailabilityQueriesNeverRaise ==
    /\ ret.op \in {"InMemoryBookingRepository.find_available_slots",
                   "InMemoryBookingRepository.is_slot_available"} =>
           ret.error = ""
    /\ ret.op = "InMemoryBookingRepository.find_available_slots" =>
           \A i \in DOMAIN ret.value :
               /\ 0 <= ret.value[i].current_bookings
               /\ ret.value[i].current_bookings <= ret.value[i].max_bookings


\* The accounts whose lockout has passed at clock reading t.
LockExpiredAt(i, t) ==
    /\ login_info[i].locked_until # {}
    /\ \A u \in login_info[i].locked_until : u <= t

\* C38: the expiry of a lockout does not reset the failure counter: an
\* account that carries a locked_until keeps MAX_FAILED_ATTEMPTS stored
\* failures; once locked_until has passed, a login with the right password
\* succeeds, issues a token and stores counter 0 and no lock, while the first
\* wrong-password login fails with the account-locked result and stores a
\* new locked_until one hour after the call's clock reading.
C38_ExpiredLockKeepsCounter ==
    /\ [](\A i \in InspectorIds :
             login_info # <<>> /\ login_info[i].locked_until # {} =>
                 login_info[i].failed_login_attempts = MAX_FAILED_ATTEMPTS)
    /\ [][ \A i \in AccountOf(args'[1]) :
             ( /\ ret'.op = "login"
               /\ inspectors[i].status = "active"
               /\ LockExpiredAt(i, now') )
             => /\ args'[2] = RightPassword =>
                      /\ ret'.value[1].success
                      /\ ret'.value[1].inspector_id = {i}
                      /\ ret'.value[1].token # {}
                      /\ Len(tokens') = Len(tokens) + 1
                      /\ login_info'[i].failed_login_attempts = 0
                      /\ login_info'[i].locked_until = {}
                /\ args'[2] # RightPassword =>
                      /\ ~ret'.value[1].success
                      /\ ret'.value[1].error_message =
                             "Account locked due to too many failed login attempts"
                      /\ ret'.value[1].locked_until = {now' + 60}
                      /\ login_info'[i].locked_until = {now' + 60}
                      /\ login_info'[i].failed_login_attempts = MAX_FAILED_ATTEMPTS
                      /\ tokens' = tokens
      ]_vars

\* Inspector i1 was locked until minute 65 by five wrong passwords; the
\* first wrong password at minute 65, the lockout over, locked the account
\* again until minute 125.
C38_Witness ==
    /\ now = 65
    /\ ret.op = "login"
    /\ ret.error = "Account locked due to too many failed login attempts"
    /\ ret.value[1].failed_attempts = 6
    /\ login_info["i1"].locked_until = {125}
    /\ login_info["i1"].failed_login_attempts = 5


\* The calls that found their password wrong for inspector i.
WrongGuessesFor(i) ==
    {c \in Callers : calls[c].wrong /\ AccountOf(calls[c].email) = {i}}

\* C39: under any interleaving of login calls for one account no failed
\* attempt is lost from the counter: once every call has returned, an
\* account for which MAX_FAILED_ATTEMPTS or more wrong passwords were
\* evaluated since its counter was last reset is locked, and a counter that
\* was not reset holds every wrong password evaluated.
C39_NoFailedAttemptLost ==
    (calls # <<>> /\ \A c \in Callers : calls[c].pc = "returned") =>
        LET wrong == Cardinality(WrongGuessesFor("i1"))
            reset == \E c \in Callers :
                        /\ AccountOf(calls[c].email) = {"i1"}
                        /\ calls[c].password = RightPassword
        IN  ~reset =>
               /\ login_info["i1"].failed_login_attempts
                      >= IF RaceFailuresBefore + wrong < MAX_FAILED_ATTEMPTS
                         THEN RaceFailuresBefore + wrong
                         ELSE MAX_FAILED_ATTEMPTS
               /\ RaceFailuresBefore + wrong >= MAX_FAILED_ATTEMPTS =>
                      login_info["i1"].locked_until # {}

====
